---- MODULE Spec2Model ----
(***************************************************************************)
(* gitaware-glob: gitignore-aware walk / glob / checkGitignoreReason.      *)
(*                                                                         *)
(* Strings are sequences of one-character strings, so that the string      *)
(* operations of the source (startsWith, endsWith, includes, slice, split, *)
(* concatenation) are computed and not assumed.                            *)
(***************************************************************************)
EXTENDS Integers, Sequences, FiniteSets, TLC

(***************************************************************************)
(* Bounds of the model.                                                    *)
(***************************************************************************)
\* total number of lines over the .gitignore files of the tree
MaxLines == 2

\* the number of lines over the .gitignore files of a tree walked with an
\* additional file, and of a tree walked on a failing file system
MaxOptionLines == 1
MaxFaultLines == 1

\* the number of lines over the .gitignore files of a tree searched for them
MaxFindLines == 2

(***************************************************************************)
(* JavaScript string primitives.                                           *)
(***************************************************************************)
StartsWith(s, p) ==
  /\ Len(p) <= Len(s)
  /\ SubSeq(s, 1, Len(p)) = p

EndsWith(s, p) ==
  /\ Len(p) <= Len(s)
  /\ SubSeq(s, Len(s) - Len(p) + 1, Len(s)) = p

Includes(s, p) ==
  \E i \in 1..(Len(s) - Len(p) + 1) : SubSeq(s, i, i + Len(p) - 1) = p

\* s.slice(n): the string without its first n characters
SliceFrom(s, n) == SubSeq(s, n + 1, Len(s))

\* s.slice(0, -n): the string without its last n characters
SliceEnd(s, n) == SubSeq(s, 1, Len(s) - n)

\* index (1-based) of the first occurrence of character c in s, 0 when absent
RECURSIVE IndexOfFrom(_, _, _)
IndexOfFrom(s, c, i) ==
  IF i > Len(s) THEN 0
  ELSE IF s[i] = c THEN i
  ELSE IndexOfFrom(s, c, i + 1)

\* s.split(c) for a one-character separator: a sequence of strings
RECURSIVE Split(_, _)
Split(s, c) ==
  LET i == IndexOfFrom(s, c, 1) IN
  IF i = 0 THEN << s >>
  ELSE << SubSeq(s, 1, i - 1) >> \o Split(SubSeq(s, i + 1, Len(s)), c)

\* parts.join(c)
RECURSIVE JoinWith(_, _)
JoinWith(parts, c) ==
  IF parts = << >> THEN << >>
  ELSE IF Len(parts) = 1 THEN parts[1]
  ELSE parts[1] \o << c >> \o JoinWith(Tail(parts), c)

\* parts.filter(Boolean): drop the empty strings
RECURSIVE FilterNonEmpty(_)
FilterNonEmpty(parts) ==
  IF parts = << >> THEN << >>
  ELSE IF Head(parts) = << >> THEN FilterNonEmpty(Tail(parts))
  ELSE << Head(parts) >> \o FilterNonEmpty(Tail(parts))

\* s.trim() (the only white space of the model is the blank)
RECURSIVE Trim(_)
Trim(s) ==
  IF s = << >> THEN s
  ELSE IF Head(s) = " " THEN Trim(Tail(s))
  ELSE IF s[Len(s)] = " " THEN Trim(SubSeq(s, 1, Len(s) - 1))
  ELSE s

(***************************************************************************)
(* minimatch(path, pattern, { dot }) for patterns made of literals, `*`,   *)
(* `?` and `**` segments.                                                  *)
(***************************************************************************)
\* one path segment against one pattern segment, character by character
RECURSIVE SegMatch(_, _)
SegMatch(seg, pat) ==
  IF pat = << >> THEN seg = << >>
  ELSE IF Head(pat) = "*" THEN
    \/ SegMatch(seg, Tail(pat))
    \/ (seg # << >> /\ SegMatch(Tail(seg), pat))
  ELSE IF Head(pat) = "?" THEN
    seg # << >> /\ SegMatch(Tail(seg), Tail(pat))
  ELSE
    seg # << >> /\ Head(seg) = Head(pat) /\ SegMatch(Tail(seg), Tail(pat))

IsMagic(pat) == Includes(pat, << "*" >>) \/ Includes(pat, << "?" >>)

\* a segment with a leading dot is matched by a wild card only under dot:true
\* or when the pattern segment itself starts with a dot
SegMatchDot(seg, pat, dot) ==
  /\ seg # << >>
  /\ (IsMagic(pat) /\ ~dot /\ Head(seg) = ".") => StartsWith(pat, << "." >>)
  /\ SegMatch(seg, pat)

GLOBSTAR == << "*", "*" >>

\* minimatch's matchOne over the path segments and the pattern segments
RECURSIVE MatchOne(_, _, _)
MatchOne(file, pattern, dot) ==
  IF pattern = << >> THEN file = << >> \/ file = << << >> >>
  ELSE IF file = << >> THEN FALSE
  ELSE IF Head(pattern) = GLOBSTAR THEN
    IF Len(pattern) = 1
    THEN \A i \in 1..Len(file) : dot \/ ~StartsWith(file[i], << "." >>)
    ELSE \/ MatchOne(file, Tail(pattern), dot)
         \/ /\ (dot \/ ~StartsWith(Head(file), << "." >>))
            /\ MatchOne(Tail(file), pattern, dot)
  ELSE /\ SegMatchDot(Head(file), Head(pattern), dot)
       /\ MatchOne(Tail(file), Tail(pattern), dot)

Minimatch(path, pattern, dot) ==
  IF pattern = << >> THEN path = << >>
  ELSE MatchOne(Split(path, "/"), Split(pattern, "/"), dot)

(***************************************************************************)
(* path-utils: join and relative.                                          *)
(***************************************************************************)
\* replace(/\/+/g, '/')
RECURSIVE CollapseSlashes(_)
CollapseSlashes(s) ==
  IF Len(s) < 2 THEN s
  ELSE IF s[1] = "/" /\ s[2] = "/" THEN CollapseSlashes(Tail(s))
  ELSE << s[1] >> \o CollapseSlashes(Tail(s))

\* replace(/\/\.\//g, '/'): the scan resumes after each match
RECURSIVE RemoveDotSegments(_)
RemoveDotSegments(s) ==
  IF Len(s) < 3 THEN s
  ELSE IF SubSeq(s, 1, 3) = << "/", ".", "/" >>
       THEN << "/" >> \o RemoveDotSegments(SliceFrom(s, 3))
  ELSE << s[1] >> \o RemoveDotSegments(Tail(s))

\* replace(/\/[^/]+\/\.\.\//g, '/'): the scan resumes after each match
RECURSIVE RemoveParentSegments(_)
RemoveParentSegments(s) ==
  IF Len(s) < 6 THEN s
  ELSE
    LET j == IndexOfFrom(s, "/", 2) IN
    IF /\ s[1] = "/"
       /\ j > 2
       /\ j + 3 <= Len(s)
       /\ SubSeq(s, j, j + 3) = << "/", ".", ".", "/" >>
    THEN << "/" >> \o RemoveParentSegments(SliceFrom(s, j + 3))
    ELSE << s[1] >> \o RemoveParentSegments(Tail(s))

\* join(a, b)
Join(a, b) ==
  RemoveParentSegments(RemoveDotSegments(CollapseSlashes(
    JoinWith(FilterNonEmpty(<< a, b >>), "/"))))

RECURSIVE CommonLength(_, _)
CommonLength(fromParts, toParts) ==
  IF fromParts = << >> \/ toParts = << >> THEN 0
  ELSE IF Head(fromParts) = Head(toParts)
       THEN 1 + CommonLength(Tail(fromParts), Tail(toParts))
  ELSE 0

Ups(n) == [i \in 1..n |-> << ".", "." >>]

\* the ".." steps up from `from` and the steps down to `to`, joined by "/"
RelativeSteps(from, to) ==
  LET fromParts == FilterNonEmpty(Split(from, "/"))
      toParts == FilterNonEmpty(Split(to, "/"))
      commonLength == CommonLength(fromParts, toParts)
      ups == Ups(Len(fromParts) - commonLength)
      remaining == SubSeq(toParts, commonLength + 1, Len(toParts))
  IN JoinWith(ups \o remaining, "/")

\* relative(from, to) of path-utils
Relative(from, to) ==
  LET joined == RelativeSteps(from, to)
  IN IF joined = << >> THEN << "." >> ELSE joined

(***************************************************************************)
(* node:path on absolute POSIX paths, as check-ignore.ts uses it.          *)
(***************************************************************************)
\* relative(from, to): the empty string when both are the same directory
NodeRelative(from, to) == RelativeSteps(from, to)

\* dirname(path)
NodeDirname(path) ==
  LET parts == FilterNonEmpty(Split(path, "/"))
  IN IF Len(parts) <= 1 THEN << "/" >>
     ELSE << "/" >> \o JoinWith(SubSeq(parts, 1, Len(parts) - 1), "/")

\* the segments of a path with "." dropped and ".." resolved
RECURSIVE NormalizeParts(_, _)
NormalizeParts(done, parts) ==
  IF parts = << >> THEN done
  ELSE IF Head(parts) = << "." >> THEN NormalizeParts(done, Tail(parts))
  ELSE IF Head(parts) = << ".", "." >>
       THEN NormalizeParts(IF done = << >> THEN done
                           ELSE SubSeq(done, 1, Len(done) - 1), Tail(parts))
  ELSE NormalizeParts(Append(done, Head(parts)), Tail(parts))

\* join(a, b) for an absolute a
NodeJoin(a, b) ==
  << "/" >> \o JoinWith(NormalizeParts(<< >>,
      FilterNonEmpty(Split(a \o << "/" >> \o b, "/"))), "/")

(***************************************************************************)
(* core/postprocess.ts                                                     *)
(***************************************************************************)
HasWildcard(pattern) ==
  \/ Includes(pattern, << "*" >>)
  \/ Includes(pattern, << "?" >>)
  \/ Includes(pattern, << "[" >>)

\* a literal pattern that equals a directory component (not the last one)
MatchesAsDirectory(path, pattern) ==
  /\ ~HasWildcard(pattern)
  /\ LET parts == Split(path, "/")
     IN \E i \in 1..(Len(parts) - 1) : parts[i] = pattern

Basename(path) ==
  LET parts == Split(path, "/") IN parts[Len(parts)]

MatchesGitignorePattern(path, pattern) ==
  IF EndsWith(pattern, << "/" >>) THEN
    LET dirPattern == SliceEnd(pattern, 1)
    IN path = dirPattern \/ StartsWith(path, dirPattern \o << "/" >>)
  ELSE IF StartsWith(pattern, << "/" >>) THEN
    Minimatch(path, SliceFrom(pattern, 1), TRUE)
  ELSE IF Includes(pattern, << "*", "*", "/" >>) THEN
    Minimatch(path, pattern, TRUE)
  ELSE IF Includes(pattern, << "/" >>) THEN
    \/ Minimatch(path, pattern, TRUE)
    \/ /\ ~StartsWith(pattern, << "*", "*", "/" >>)
       /\ Minimatch(path, << "*", "*", "/" >> \o pattern, TRUE)
  ELSE
    \/ Minimatch(Basename(path), pattern, TRUE)
    \/ MatchesAsDirectory(path, pattern)

IsNegation(pattern) == StartsWith(pattern, << "!" >>)

\* one iteration of the loop of shouldExclude
ExcludeStep(excluded, filePath, pattern) ==
  IF IsNegation(pattern) THEN
    IF MatchesGitignorePattern(filePath, SliceFrom(pattern, 1)) THEN FALSE
    ELSE excluded
  ELSE IF MatchesGitignorePattern(filePath, pattern) THEN TRUE
  ELSE excluded

RECURSIVE ExcludeFold(_, _, _)
ExcludeFold(excluded, filePath, patterns) ==
  IF patterns = << >> THEN excluded
  ELSE ExcludeFold(ExcludeStep(excluded, filePath, Head(patterns)),
                   filePath, Tail(patterns))

\* a first-match scan: the first pattern that matches decides
RECURSIVE ShouldExcludeFirstMatch(_, _)
ShouldExcludeFirstMatch(filePath, patterns) ==
  IF patterns = << >> THEN FALSE
  ELSE IF IsNegation(Head(patterns))
       THEN IF MatchesGitignorePattern(filePath, SliceFrom(Head(patterns), 1))
            THEN FALSE
            ELSE ShouldExcludeFirstMatch(filePath, Tail(patterns))
  ELSE IF MatchesGitignorePattern(filePath, Head(patterns)) THEN TRUE
  ELSE ShouldExcludeFirstMatch(filePath, Tail(patterns))

\* shouldExclude(filePath, patterns) of postprocess.ts
ShouldExcludeByPatterns(filePath, patterns) ==
  ExcludeFold(FALSE, filePath, patterns)

\* filterByGitignore(filePaths, patterns), on a sequence of paths
RECURSIVE FilterByGitignore(_, _)
FilterByGitignore(filePaths, patterns) ==
  IF filePaths = << >> THEN << >>
  ELSE IF ShouldExcludeByPatterns(Head(filePaths), patterns)
       THEN FilterByGitignore(Tail(filePaths), patterns)
  ELSE << Head(filePaths) >> \o FilterByGitignore(Tail(filePaths), patterns)

(***************************************************************************)
(* The file system seen through FileSystemInterface: a fixed tree whose    *)
(* .gitignore files vary.                                                  *)
(***************************************************************************)
GITIGNORE == << ".", "g", "i", "t", "i", "g", "n", "o", "r", "e" >>
DOTGIT == << ".", "g", "i", "t" >>

R == << "/", "r" >>
DirGit == R \o << "/" >> \o DOTGIT
DirD == R \o << "/", "d" >>
DirS == R \o << "/", "s" >>
DirSD == R \o << "/", "s", "/", "d" >>
DirSd == R \o << "/", "s", "d" >>
NODE_MODULES == << "n", "o", "d", "e", "_", "m", "o", "d", "u", "l", "e", "s" >>
DirN == R \o << "/" >> \o NODE_MODULES

Dirs == { R, DirGit, DirD, DirS, DirSD, DirSd, DirN }

\* the file named in options.additionalGitignoreFiles; it lies outside the tree
AdditionalFile == << "/", "g" >>

\* error codes of the file system; NONE: the call succeeds
NONE == ""
ErrorCodes == { "EACCES", "EPERM", "EIO" }

\* only EACCES counts as a permission error
IsAccessError(code) == code = "EACCES"

\* error.code === 'EACCES' || error.code === 'EPERM'
IsPermissionError(code) == code \in { "EACCES", "EPERM" }

\* directories that may hold a .gitignore file
GitignoreDirs == { R, DirS, DirD }

Dir(n) == [name |-> n, isDirectory |-> TRUE]
File(n) == [name |-> n, isDirectory |-> FALSE]

StaticEntries(dir) ==
  CASE dir = R -> << Dir(DOTGIT), Dir(<< "d" >>), File(<< "f" >>),
                     Dir(NODE_MODULES), Dir(<< "s" >>), Dir(<< "s", "d" >>) >>
    [] dir = DirN -> << File(GITIGNORE) >>
    [] dir = DirGit -> << File(GITIGNORE), File(<< "c" >>) >>
    [] dir = DirD -> << File(<< "f" >>) >>
    [] dir = DirS -> << Dir(<< "d" >>), File(<< "f" >>) >>
    [] dir = DirSD -> << File(<< "f" >>) >>
    [] dir = DirSd -> << File(<< "f" >>) >>
    [] OTHER -> << >>

\* the lines a .gitignore file may hold
Lines == {
  << "d", "/" >>,
  << "!", "f" >>,
  << "/", "f" >>,
  << "*" >>,
  << "f" >>,
  GITIGNORE }

\* the lines of the trees walked with an additional file
NegDotGit == << "!" >> \o DOTGIT
OptionLines == { << "f" >>, << "!", "f" >>, << "*" >>, NegDotGit }

\* the lines of the trees walked on a failing file system
FaultLines == { << "f" >>, << "*" >> }

BoundedSeq(S, n) == UNION { [1..k -> S] : k \in 0..n }

VARIABLES
  gitignore,    \* [GitignoreDirs -> Seq(Lines)]: the lines of each .gitignore (<< >>: no file)
  cwd,          \* options.cwd of the traversal
  pc,           \* "start", "walking", "done", "failed", "globbed", "explained", ...
  stack,        \* the active walkDirectory calls, innermost first
  yielded,      \* what walk has yielded so far
  globPattern,  \* the pattern given to glob
  globResult,   \* what glob yields
  reasonFile,   \* the file given to checkGitignoreReason
  reason,       \* what checkGitignoreReason returns
  additional,   \* the lines of AdditionalFile (<< >>: no additionalGitignoreFiles option)
  readdirError, \* [Dirs -> code]: the error fs.readdir of a directory fails with, or NONE
  readFileError,\* the directories whose .gitignore exists but cannot be read
  error,        \* the error the traversal ended with, or NONE
  readdirOptions, \* [withFileTypes, recursive] given to readdir
  readdirResult,  \* the array readdir returns
  foundFiles,   \* what findGitignore or findGitignoreRecursive returns
  fsCalls,      \* the calls walk has made on options.fs, in order
  other         \* the traversal that is suspended while this one runs, or NoTraversal

\* what the caller and the file system provide: no operation changes it
faults == << additional, readdirError, readFileError >>
\* the results of readdir and of the find functions
results == << readdirOptions, readdirResult, foundFiles >>

vars == << gitignore, cwd, pc, stack, yielded, globPattern, globResult,
           reasonFile, reason, additional, readdirError, readFileError, error,
           readdirOptions, readdirResult, foundFiles, fsCalls, other >>

GitignoreLines(fsys, dir) ==
  IF dir \in GitignoreDirs THEN fsys[dir] ELSE << >>

\* fs.access(path) succeeds
Exists(fsys, path) ==
  \/ path \in Dirs
  \/ \E d \in Dirs :
       \/ \E i \in 1..Len(StaticEntries(d)) :
            path = d \o << "/" >> \o StaticEntries(d)[i].name
       \/ (path = d \o << "/" >> \o GITIGNORE /\ GitignoreLines(fsys, d) # << >>)

\* fs.readFile(path, "utf-8") of a .gitignore file or of the additional file
ReadFile(fsys, path) ==
  IF path = AdditionalFile THEN JoinWith(additional, "\n")
  ELSE LET d == CHOOSE d \in Dirs : path = d \o << "/" >> \o GITIGNORE
       IN JoinWith(GitignoreLines(fsys, d), "\n")

\* fs.readFile(path, "utf-8") succeeds
IsGitignoreFile(fsys, path) ==
  \/ path = AdditionalFile /\ additional # << >>
  \/ \E d \in Dirs : /\ path = d \o << "/" >> \o GITIGNORE
                     /\ GitignoreLines(fsys, d) # << >>
                     /\ d \notin readFileError

\* options.additionalGitignoreFiles, << >> for undefined
AdditionalGitignoreFiles ==
  IF additional = << >> THEN << >> ELSE << AdditionalFile >>

\* fs.readdir(dir, { withFileTypes: true })
Readdir(fsys, dir) ==
  LET base == StaticEntries(dir)
      IsDotGit(e) == e.name = DOTGIT
      own == IF GitignoreLines(fsys, dir) # << >> THEN << File(GITIGNORE) >> ELSE << >>
  IN SelectSeq(base, IsDotGit) \o own \o SelectSeq(base, LAMBDA e : ~IsDotGit(e))

(***************************************************************************)
(* core/gitignore-files.ts and core/walk.ts                                *)
(***************************************************************************)
\* findGitignoreInDir(dir, fs): the path of dir's .gitignore, << >> for null
FindGitignoreInDir(fsys, dir) ==
  LET gitignorePath == Join(dir, GITIGNORE)
  IN IF Exists(fsys, gitignorePath) THEN gitignorePath ELSE << >>

IsBlankOrComment(trimmed) == trimmed = << >> \/ StartsWith(trimmed, << "#" >>)

RECURSIVE KeepRawPatterns(_)
KeepRawPatterns(lines) ==
  IF lines = << >> THEN << >>
  ELSE
    LET trimmed == Trim(Head(lines)) IN
    IF IsBlankOrComment(trimmed) \/ trimmed = GITIGNORE
    THEN KeepRawPatterns(Tail(lines))
    ELSE << trimmed >> \o KeepRawPatterns(Tail(lines))

\* parseGitignorePatterns(gitignorePath, fs): the raw lines kept as patterns
ParseGitignorePatterns(fsys, gitignorePath) ==
  IF ~IsGitignoreFile(fsys, gitignorePath) THEN << >>
  ELSE KeepRawPatterns(Split(ReadFile(fsys, gitignorePath), "\n"))

Scoped(patterns, dir) ==
  [i \in 1..Len(patterns) |-> [pattern |-> patterns[i], scope |-> dir]]

\* loadLocalGitignorePatterns(dir, baseDir, scopedPatterns, fs)
LoadLocalGitignorePatterns(fsys, dir, scopedPatterns) ==
  LET gitignorePath == FindGitignoreInDir(fsys, dir) IN
  IF gitignorePath = << >> THEN scopedPatterns
  ELSE scopedPatterns \o Scoped(ParseGitignorePatterns(fsys, gitignorePath), dir)

\* a scope test on the bare prefix, without the "/" that ends a directory name
PatternAppliesByPrefix(path, scope, baseDir) ==
  LET scopeRelative == Relative(baseDir, scope) IN
  IF scopeRelative = << >> \/ scopeRelative = << "." >> THEN TRUE
  ELSE StartsWith(path, scopeRelative)

\* the scope test of shouldExclude: does a pattern of `scope` apply to `path`
PatternApplies(path, scope, baseDir) ==
  LET scopeRelative == Relative(baseDir, scope) IN
  IF scopeRelative = << >> \/ scopeRelative = << "." >> THEN TRUE
  ELSE StartsWith(path, scopeRelative \o << "/" >>) \/ path = scopeRelative

RECURSIVE ApplicablePatterns(_, _, _)
ApplicablePatterns(path, scopedPatterns, baseDir) ==
  IF scopedPatterns = << >> THEN << >>
  ELSE
    LET sp == Head(scopedPatterns)
        rest == ApplicablePatterns(path, Tail(scopedPatterns), baseDir)
    IN IF PatternApplies(path, sp.scope, baseDir) THEN << sp.pattern >> \o rest
       ELSE rest

\* shouldExclude(path, scopedPatterns, baseDir) of walk.ts
ShouldExclude(path, scopedPatterns, baseDir) ==
  ShouldExcludeByPatterns(path, ApplicablePatterns(path, scopedPatterns, baseDir))

\* the patterns of the additional files, scoped to cwd
RECURSIVE AdditionalScopedPatterns(_, _, _)
AdditionalScopedPatterns(fsys, additionalFiles, absoluteCwd) ==
  IF additionalFiles = << >> THEN << >>
  ELSE Scoped(ParseGitignorePatterns(fsys, Head(additionalFiles)), absoluteCwd)
       \o AdditionalScopedPatterns(fsys, Tail(additionalFiles), absoluteCwd)

\* the scoped patterns walk starts with
InitialScopedPatterns(absoluteCwd) ==
  << [pattern |-> DOTGIT, scope |-> absoluteCwd] >>
    \o AdditionalScopedPatterns(<< >>, AdditionalGitignoreFiles, absoluteCwd)

\* a call of walkDirectory up to its loop: the entries read and the patterns
\* extended by the directory's own .gitignore
Frame(fsys, dir, scopedPatterns) ==
  [dir |-> dir,
   entries |-> Readdir(fsys, dir),
   patterns |-> LoadLocalGitignorePatterns(fsys, dir, scopedPatterns)]

\* processEntry of a file: the record yielded, if any
YieldOfFile(name, dir, baseDir, scopedPatterns) ==
  LET relativePath == Relative(baseDir, Join(dir, name)) IN
  IF ShouldExclude(relativePath, scopedPatterns, baseDir) THEN << >>
  ELSE << [path |-> relativePath, name |-> name, parentPath |-> dir] >>

\* walkDirectory run to completion: everything it yields, in order
RECURSIVE WalkDirectoryAll(_, _, _, _)
RECURSIVE ProcessEntriesAll(_, _, _, _, _)
WalkDirectoryAll(fsys, dir, baseDir, scopedPatterns) ==
  LET fr == Frame(fsys, dir, scopedPatterns)
  IN ProcessEntriesAll(fsys, fr.entries, dir, baseDir, fr.patterns)

ProcessEntriesAll(fsys, entries, dir, baseDir, scopedPatterns) ==
  IF entries = << >> THEN << >>
  ELSE
    LET entry == Head(entries)
        rest == ProcessEntriesAll(fsys, Tail(entries), dir, baseDir, scopedPatterns)
    IN IF entry.name = DOTGIT THEN rest
       ELSE IF entry.isDirectory
       THEN WalkDirectoryAll(fsys, Join(dir, entry.name), baseDir, scopedPatterns) \o rest
       ELSE YieldOfFile(entry.name, dir, baseDir, scopedPatterns) \o rest

\* walk({ cwd, fs }) run to completion
WalkAll(fsys, absoluteCwd) ==
  WalkDirectoryAll(fsys, absoluteCwd, absoluteCwd, InitialScopedPatterns(absoluteCwd))

Paths(records) == { records[i].path : i \in 1..Len(records) }

(***************************************************************************)
(* core/gitignore-to-glob.ts: an undefined baseDir is the empty string.    *)
(***************************************************************************)
Bang(isNegation) == IF isNegation THEN << "!" >> ELSE << >>
StarStarSlash == << "*", "*", "/" >>
SlashStarStar == << "/", "*", "*" >>

HandleDirectoryPattern(dirPattern, isNegation, baseDir) ==
  LET prefix == Bang(isNegation) IN
  IF StartsWith(dirPattern, << "/" >>) THEN
    LET path == SliceFrom(dirPattern, 1) IN
    IF baseDir # << >>
    THEN << prefix \o baseDir \o << "/" >> \o path \o SlashStarStar >>
    ELSE << prefix \o path \o SlashStarStar >>
  ELSE IF Includes(dirPattern, << "/" >>) THEN
    IF baseDir # << >>
    THEN << prefix \o baseDir \o << "/" >> \o dirPattern \o SlashStarStar >>
         \o (IF ~StartsWith(dirPattern, StarStarSlash)
             THEN << prefix \o baseDir \o << "/" >> \o StarStarSlash \o dirPattern
                       \o SlashStarStar >>
             ELSE << >>)
    ELSE << prefix \o dirPattern \o SlashStarStar >>
         \o (IF ~StartsWith(dirPattern, StarStarSlash)
             THEN << prefix \o StarStarSlash \o dirPattern \o SlashStarStar >>
             ELSE << >>)
  ELSE
    IF baseDir # << >>
    THEN << prefix \o baseDir \o << "/" >> \o dirPattern \o SlashStarStar,
            prefix \o baseDir \o << "/" >> \o StarStarSlash \o dirPattern
              \o SlashStarStar >>
    ELSE << prefix \o StarStarSlash \o dirPattern \o SlashStarStar >>

HandleDoubleStarPattern(pattern, isNegation, baseDir) ==
  LET prefix == Bang(isNegation) IN
  IF baseDir # << >> THEN
    IF StartsWith(pattern, StarStarSlash) THEN
      LET subPattern == SliceFrom(pattern, 3) IN
      << prefix \o baseDir \o << "/" >> \o subPattern,
         prefix \o baseDir \o << "/" >> \o StarStarSlash \o subPattern >>
    ELSE << prefix \o baseDir \o << "/" >> \o pattern >>
  ELSE << prefix \o pattern >>

LooksLikeDirectoryName(pattern) ==
  ~Includes(pattern, << "." >>) /\ ~HasWildcard(pattern)

HandleRegularPattern(pattern, isNegation, baseDir) ==
  LET prefix == Bang(isNegation) IN
  IF Includes(pattern, << "/" >>) THEN
    IF baseDir # << >>
    THEN << prefix \o baseDir \o << "/" >> \o pattern >>
         \o (IF ~StartsWith(pattern, << "*" >>)
             THEN << prefix \o baseDir \o << "/" >> \o StarStarSlash \o pattern >>
             ELSE << >>)
    ELSE << prefix \o pattern >>
         \o (IF ~StartsWith(pattern, << "*" >>)
             THEN << prefix \o StarStarSlash \o pattern >>
             ELSE << >>)
  ELSE
    IF baseDir # << >>
    THEN << prefix \o baseDir \o << "/" >> \o pattern,
            prefix \o baseDir \o << "/" >> \o StarStarSlash \o pattern >>
         \o (IF LooksLikeDirectoryName(pattern)
             THEN << prefix \o baseDir \o << "/" >> \o pattern \o SlashStarStar,
                     prefix \o baseDir \o << "/" >> \o StarStarSlash \o pattern
                       \o SlashStarStar >>
             ELSE << >>)
    ELSE << prefix \o StarStarSlash \o pattern >>
         \o (IF LooksLikeDirectoryName(pattern)
             THEN << prefix \o StarStarSlash \o pattern \o SlashStarStar >>
             ELSE << >>)

\* gitignoreToGlob(pattern, baseDir): the glob patterns of one line
GitignoreToGlob(line, baseDir) ==
  LET trimmed == Trim(line)
      isNegation == StartsWith(trimmed, << "!" >>)
      pattern == IF isNegation THEN SliceFrom(trimmed, 1) ELSE trimmed
  IN
  IF IsBlankOrComment(trimmed) THEN << >>
  ELSE IF trimmed = GITIGNORE THEN << >>
  ELSE IF EndsWith(pattern, << "/" >>)
       THEN HandleDirectoryPattern(SliceEnd(pattern, 1), isNegation, baseDir)
  ELSE IF StartsWith(pattern, << "/" >>) THEN
    IF baseDir # << >>
    THEN << Bang(isNegation) \o baseDir \o << "/" >> \o SliceFrom(pattern, 1) >>
    ELSE << Bang(isNegation) \o SliceFrom(pattern, 1) >>
  ELSE IF Includes(pattern, StarStarSlash)
       THEN HandleDoubleStarPattern(pattern, isNegation, baseDir)
  ELSE HandleRegularPattern(pattern, isNegation, baseDir)

(***************************************************************************)
(* core/gitignore-files.ts and core/glob.ts                                *)
(***************************************************************************)
RECURSIVE LinesToExclude(_, _)
LinesToExclude(lines, baseDir) ==
  IF lines = << >> THEN << >>
  ELSE
    LET trimmed == Trim(Head(lines)) IN
    IF IsBlankOrComment(trimmed) THEN LinesToExclude(Tail(lines), baseDir)
    ELSE GitignoreToGlob(trimmed, baseDir) \o LinesToExclude(Tail(lines), baseDir)

\* parseGitignoreToExclude(gitignorePath, baseDir, fs)
ParseGitignoreToExclude(fsys, gitignorePath, baseDir) ==
  IF ~IsGitignoreFile(fsys, gitignorePath) THEN << >>
  ELSE LinesToExclude(Split(ReadFile(fsys, gitignorePath), "\n"), baseDir)

\* s.lastIndexOf('/'), 1-based, 0 when absent
RECURSIVE LastIndexOfSlash(_)
LastIndexOfSlash(s) ==
  IF s = << >> THEN 0
  ELSE IF s[Len(s)] = "/" THEN Len(s)
  ELSE LastIndexOfSlash(SubSeq(s, 1, Len(s) - 1))

GlobStarGit == StarStarSlash \o DOTGIT \o SlashStarStar

\* collectGitignorePatterns(gitignorePath, absoluteCwd, fs)
CollectGitignorePatterns(fsys, gitignorePath, absoluteCwd) ==
  LET gitignoreDir == SubSeq(gitignorePath, 1, LastIndexOfSlash(gitignorePath) - 1)
      relPath == Relative(absoluteCwd, gitignoreDir)
      baseDir == IF relPath # << >> /\ relPath # << "." >> THEN relPath ELSE << >>
  IN ParseGitignoreToExclude(fsys, gitignorePath, baseDir) \o << GlobStarGit >>

\* findRelevantGitignoreFiles(absoluteCwd, fs): from the directory upwards
RECURSIVE FindRelevantGitignoreFiles(_, _)
FindRelevantGitignoreFiles(fsys, currentPath) ==
  LET gitignorePath == FindGitignoreInDir(fsys, currentPath)
      found == IF gitignorePath # << >> THEN << gitignorePath >> ELSE << >>
      lastSlash == LastIndexOfSlash(currentPath) - 1
  IN IF lastSlash <= 0 THEN found
     ELSE found \o FindRelevantGitignoreFiles(fsys, SubSeq(currentPath, 1, lastSlash))

\* the patterns of a list of .gitignore files, in list order
RECURSIVE CollectEach(_, _, _)
CollectEach(fsys, files, absoluteCwd) ==
  IF files = << >> THEN << >>
  ELSE CollectGitignorePatterns(fsys, Head(files), absoluteCwd)
       \o CollectEach(fsys, Tail(files), absoluteCwd)

\* collectAllGitignorePatterns(relevantGitignoreFiles, absoluteCwd,
\* additionalGitignoreFiles, fs): the additional files first
CollectAllGitignorePatterns(fsys, relevantGitignoreFiles, absoluteCwd, additionalGitignoreFiles) ==
  CollectEach(fsys, additionalGitignoreFiles, absoluteCwd)
    \o CollectEach(fsys, relevantGitignoreFiles, absoluteCwd)

\* collectGlobEntries: the walk, kept where minimatch accepts the path
RECURSIVE CollectGlobEntries(_, _, _)
CollectGlobEntries(pattern, absoluteCwd, entries) ==
  IF entries = << >> THEN << >>
  ELSE
    LET dirent == Head(entries)
        relativePath == Relative(absoluteCwd, Join(dirent.parentPath, dirent.name))
        rest == CollectGlobEntries(pattern, absoluteCwd, Tail(entries))
    IN IF Minimatch(relativePath, pattern, FALSE) THEN << relativePath >> \o rest
       ELSE rest

\* preprocessPatterns(allPatterns).postprocessPatterns
PostprocessPatterns(allPatterns) == allPatterns

\* glob(pattern, { cwd, fs }): the paths it yields, given what its walk yields
GlobAll(fsys, pattern, absoluteCwd, walked) ==
  LET relevantGitignoreFiles == FindRelevantGitignoreFiles(fsys, absoluteCwd)
      allPatterns == CollectAllGitignorePatterns(fsys, relevantGitignoreFiles, absoluteCwd,
                                                 AdditionalGitignoreFiles)
      allPaths == CollectGlobEntries(pattern, absoluteCwd, walked)
  IN FilterByGitignore(allPaths, PostprocessPatterns(allPatterns))

GlobPatterns == {
  << "*", "*" >>,
  << "*", "*", "/", "f" >>,
  << "*" >> }

(***************************************************************************)
(* core/readdir.ts                                                         *)
(***************************************************************************)
\* loadLocalGitignorePatterns(dir, baseDir, patterns, fs) of readdir.ts
ReaddirLoadLocalGitignorePatterns(fsys, dir, baseDir, patterns) ==
  LET gitignorePath == FindGitignoreInDir(fsys, dir) IN
  IF gitignorePath = << >> THEN patterns
  ELSE
    LET relativeDirPath == Relative(baseDir, dir)
    IN patterns \o ParseGitignoreToExclude(fsys, gitignorePath,
                     IF relativeDirPath = << "." >> THEN << >> ELSE relativeDirPath)

\* what a generator of readdir.ts produces: the items yielded, and the error
\* it ends with (NONE: it returns)
Produced(items, err) == [items |-> items, err |-> err]

\* run g after f, unless f ended with an error
Then(f, g) == IF f.err # NONE THEN f ELSE Produced(f.items \o g.items, g.err)

\* readdirRecursive and processEntry of readdir.ts, run to completion
RECURSIVE ReaddirRecursive(_, _, _, _, _)
RECURSIVE ReaddirProcessEntries(_, _, _, _, _, _)
ReaddirRecursive(fsys, dir, baseDir, gitignorePatterns, currentDepth) ==
  IF readdirError[dir] # NONE
  THEN Produced(<< >>, IF IsPermissionError(readdirError[dir]) THEN NONE
                       ELSE readdirError[dir])
  ELSE ReaddirProcessEntries(fsys, Readdir(fsys, dir), dir, baseDir,
         ReaddirLoadLocalGitignorePatterns(fsys, dir, baseDir, gitignorePatterns),
         currentDepth)

ReaddirProcessEntries(fsys, entries, dir, baseDir, localPatterns, currentDepth) ==
  IF entries = << >> THEN Produced(<< >>, NONE)
  ELSE
    LET entry == Head(entries)
        fullPath == Join(dir, entry.name)
        relativePath == Relative(baseDir, fullPath)
        item == [path |-> relativePath, name |-> entry.name,
                 isDirectory |-> entry.isDirectory, parentPath |-> dir,
                 depth |-> currentDepth]
        shouldExclude == FilterByGitignore(<< relativePath >>, localPatterns) = << >>
        dirPath == relativePath \o << "/" >>
        skipped == entry.name = DOTGIT \/ shouldExclude
        descends == /\ ~skipped
                    /\ entry.isDirectory
                    /\ FilterByGitignore(<< dirPath >>, localPatterns) # << >>
    IN Then(Produced(IF skipped THEN << >> ELSE << item >>, NONE),
            Then(IF descends
                 THEN ReaddirRecursive(fsys, fullPath, baseDir, localPatterns,
                                       currentDepth + 1)
                 ELSE Produced(<< >>, NONE),
                 ReaddirProcessEntries(fsys, Tail(entries), dir, baseDir,
                                       localPatterns, currentDepth)))

\* the collation order of the characters of the tree's names
Collation == << "_", ".", "/", "c", "d", "e", "f", "g", "i", "l", "m", "n", "o",
                "r", "s", "t", "u" >>
CharRank(c) == CHOOSE i \in 1..Len(Collation) : Collation[i] = c

\* a.localeCompare(b): negative, zero or positive
RECURSIVE LocaleCompare(_, _)
LocaleCompare(a, b) ==
  IF a = << >> THEN (IF b = << >> THEN 0 ELSE -1)
  ELSE IF b = << >> THEN 1
  ELSE IF Head(a) = Head(b) THEN LocaleCompare(Tail(a), Tail(b))
  ELSE IF CharRank(Head(a)) < CharRank(Head(b)) THEN -1 ELSE 1

\* the name entries.sort compares: the string itself, or the Dirent's name
SortName(entry, withFileTypes) == IF withFileTypes THEN entry.name ELSE entry.path

\* insert an entry behind everything that does not order after it
RECURSIVE InsertByName(_, _, _)
InsertByName(sorted, entry, withFileTypes) ==
  IF sorted = << >> THEN << entry >>
  ELSE IF LocaleCompare(SortName(Head(sorted), withFileTypes),
                        SortName(entry, withFileTypes)) <= 0
       THEN << Head(sorted) >> \o InsertByName(Tail(sorted), entry, withFileTypes)
  ELSE << entry >> \o sorted

RECURSIVE SortFrom(_, _, _)
SortFrom(sorted, entries, withFileTypes) ==
  IF entries = << >> THEN sorted
  ELSE SortFrom(InsertByName(sorted, Head(entries), withFileTypes), Tail(entries),
                withFileTypes)

\* an array that was never sorted
Unsorted(entries, withFileTypes) == entries

\* entries.sort((a, b) => nameA.localeCompare(nameB)): a stable sort
SortEntries(entries, withFileTypes) == SortFrom(<< >>, entries, withFileTypes)

\* readdir(path, { fs, withFileTypes, recursive }): the entries pushed and
\* sorted, each with its path (string mode) and its Dirent (withFileTypes)
ReaddirAll(fsys, path, withFileTypes, recursive) ==
  LET relevantGitignoreFiles == FindRelevantGitignoreFiles(fsys, path)
      gitignorePatterns == CollectAllGitignorePatterns(fsys, relevantGitignoreFiles,
                             path, AdditionalGitignoreFiles)
      produced == ReaddirRecursive(fsys, path, path, gitignorePatterns, 0)
      Wanted(item) == recursive \/ item.depth = 0
  IN IF produced.err # NONE THEN Produced(<< >>, produced.err)
     ELSE Produced(SortEntries(SelectSeq(produced.items, Wanted), withFileTypes), NONE)

(***************************************************************************)
(* gitignore.ts (findGitignoreInternal) and check-ignore.ts                *)
(***************************************************************************)
\* the same search, with the .gitignore of the parent put first
RECURSIVE FindGitignoreRootFirst(_, _)
FindGitignoreRootFirst(fsys, currentPath) ==
  LET gitignorePath == NodeJoin(currentPath, GITIGNORE)
      found == IF Exists(fsys, gitignorePath) THEN << gitignorePath >> ELSE << >>
      parentPath == NodeDirname(currentPath)
  IN IF parentPath = currentPath THEN found
     ELSE FindGitignoreRootFirst(fsys, parentPath) \o found

\* findGitignoreInternal(startPath, options): nearest .gitignore first
RECURSIVE FindGitignoreInternal(_, _)
FindGitignoreInternal(fsys, currentPath) ==
  LET gitignorePath == NodeJoin(currentPath, GITIGNORE)
      found == IF Exists(fsys, gitignorePath) THEN << gitignorePath >> ELSE << >>
      parentPath == NodeDirname(currentPath)
  IN IF parentPath = currentPath THEN found
     ELSE found \o FindGitignoreInternal(fsys, parentPath)

\* findGitignoreRecursiveInternal(dir, options): its inner walk(currentDir)
RECURSIVE FindGitignoreRecursiveWalk(_, _)
RECURSIVE FindGitignoreRecursiveEntries(_, _, _)
RECURSIVE FindGitignoreRecursiveAll(_, _, _)
FindGitignoreRecursiveWalk(fsys, currentDir) ==
  IF readdirError[currentDir] # NONE THEN << >>
  ELSE FindGitignoreRecursiveEntries(fsys, Readdir(fsys, currentDir), currentDir)

\* the same loop, descending into every directory but .git
FindGitignoreRecursiveAll(fsys, entries, currentDir) ==
  IF entries = << >> THEN << >>
  ELSE
    LET entry == Head(entries)
        fullPath == NodeJoin(currentDir, entry.name)
        rest == FindGitignoreRecursiveAll(fsys, Tail(entries), currentDir)
    IN IF entry.isDirectory
       THEN IF entry.name # DOTGIT
            THEN FindGitignoreRecursiveWalk(fsys, fullPath) \o rest
            ELSE rest
       ELSE IF entry.name = GITIGNORE THEN << fullPath >> \o rest
       ELSE rest

FindGitignoreRecursiveEntries(fsys, entries, currentDir) ==
  IF entries = << >> THEN << >>
  ELSE
    LET entry == Head(entries)
        fullPath == NodeJoin(currentDir, entry.name)
        rest == FindGitignoreRecursiveEntries(fsys, Tail(entries), currentDir)
    IN IF entry.isDirectory
       THEN IF entry.name # NODE_MODULES /\ entry.name # DOTGIT
            THEN FindGitignoreRecursiveWalk(fsys, fullPath) \o rest
            ELSE rest
       ELSE IF entry.name = GITIGNORE THEN << fullPath >> \o rest
       ELSE rest

Reverse(seq) == [i \in 1..Len(seq) |-> seq[Len(seq) + 1 - i]]

RECURSIVE NumberLines(_, _)
NumberLines(lines, i) ==
  IF i > Len(lines) THEN << >>
  ELSE
    LET line == Trim(lines[i]) IN
    IF IsBlankOrComment(line) THEN NumberLines(lines, i + 1)
    ELSE << [pattern |-> line, lineNumber |-> i] >> \o NumberLines(lines, i + 1)

\* parseGitignoreWithLineNumbers(gitignorePath, fileSystem)
ParseGitignoreWithLineNumbers(fsys, gitignorePath) ==
  IF ~IsGitignoreFile(fsys, gitignorePath) THEN << >>
  ELSE NumberLines(Split(ReadFile(fsys, gitignorePath), "\n"), 1)

\* matchesPattern(path, pattern, basePath) of check-ignore.ts
MatchesPattern(path, pattern, basePath) ==
  LET rel == NodeRelative(basePath, path)
      relativePath == IF rel = << >> THEN << "." >> ELSE rel
      cleanPattern == IF IsNegation(pattern) THEN SliceFrom(pattern, 1) ELSE pattern
  IN MatchesGitignorePattern(relativePath, cleanPattern)

NoReason == [none |-> TRUE]

OrDot(s) == IF s = << >> THEN << "." >> ELSE s

\* ignoredDirs is a Map: insertion order, a set key keeps its place
InIgnoredDir(absoluteFilePath, ignoredDir) ==
  \/ StartsWith(absoluteFilePath, ignoredDir \o << "/" >>)
  \/ NodeDirname(absoluteFilePath) = ignoredDir

MapSet(ignoredDirs, key, value) ==
  IF \E i \in 1..Len(ignoredDirs) : ignoredDirs[i].dir = key
  THEN [i \in 1..Len(ignoredDirs) |->
          IF ignoredDirs[i].dir = key THEN [dir |-> key, reason |-> value]
          ELSE ignoredDirs[i]]
  ELSE Append(ignoredDirs, [dir |-> key, reason |-> value])

\* processGitignoreFile: [match, ignoredDirs] after the patterns from index i on
RECURSIVE ProcessGitignoreFile(_, _, _, _, _, _, _)
ProcessGitignoreFile(gitignoreFile, absoluteFilePath, workingDir, patterns, i, ignoredDirs, match) ==
  IF i > Len(patterns) THEN [match |-> match, ignoredDirs |-> ignoredDirs]
  ELSE
    LET gitignoreDir == NodeDirname(gitignoreFile)
        pattern == patterns[i].pattern
        isNegation == IsNegation(pattern)
        found == [none |-> FALSE,
                  gitignoreFile |-> OrDot(NodeRelative(workingDir, gitignoreFile)),
                  lineNumber |-> patterns[i].lineNumber,
                  pattern |-> pattern,
                  filePath |-> OrDot(NodeRelative(workingDir, absoluteFilePath)),
                  ignored |-> ~isNegation]
        inside == { k \in 1..Len(ignoredDirs) :
                      InIgnoredDir(absoluteFilePath, ignoredDirs[k].dir) }
        absoluteDirPattern == NodeJoin(gitignoreDir, SliceEnd(pattern, 1))
        tracked ==
          IF /\ ~isNegation
             /\ EndsWith(pattern, << "/" >>)
             /\ StartsWith(absoluteFilePath, absoluteDirPattern \o << "/" >>)
          THEN MapSet(ignoredDirs, absoluteDirPattern, found)
          ELSE ignoredDirs
    IN
    IF ~MatchesPattern(absoluteFilePath, pattern, gitignoreDir)
    THEN ProcessGitignoreFile(gitignoreFile, absoluteFilePath, workingDir, patterns,
                              i + 1, ignoredDirs, match)
    ELSE IF inside # { }
    THEN [match |-> ignoredDirs[CHOOSE k \in inside : \A l \in inside : k <= l].reason,
          ignoredDirs |-> ignoredDirs]
    ELSE ProcessGitignoreFile(gitignoreFile, absoluteFilePath, workingDir, patterns,
                              i + 1, tracked, found)

SkipThisGitignore(gitignoreDir, ignoredDirs) ==
  \E k \in 1..Len(ignoredDirs) :
    \/ StartsWith(gitignoreDir, ignoredDirs[k].dir \o << "/" >>)
    \/ gitignoreDir = ignoredDirs[k].dir

\* the loop of checkGitignoreReasonInternal over the .gitignore files, root first
RECURSIVE CheckFiles(_, _, _, _, _, _)
CheckFiles(fsys, gitignoreFiles, absoluteFilePath, workingDir, ignoredDirs, lastMatch) ==
  IF gitignoreFiles = << >> THEN lastMatch
  ELSE
    LET gitignoreFile == Head(gitignoreFiles)
        rest == Tail(gitignoreFiles)
    IN
    IF SkipThisGitignore(NodeDirname(gitignoreFile), ignoredDirs)
    THEN CheckFiles(fsys, rest, absoluteFilePath, workingDir, ignoredDirs, lastMatch)
    ELSE
      LET got == ProcessGitignoreFile(gitignoreFile, absoluteFilePath, workingDir,
                   ParseGitignoreWithLineNumbers(fsys, gitignoreFile), 1,
                   ignoredDirs, lastMatch)
      IN CheckFiles(fsys, rest, absoluteFilePath, workingDir, got.ignoredDirs,
                    IF got.match.none THEN lastMatch ELSE got.match)

\* checkGitignoreReasonInternal(filePath, { fs, cwd }) for an absolute filePath
CheckGitignoreReasonInternal(fsys, absoluteFilePath, workingDir) ==
  CheckFiles(fsys,
             Reverse(FindGitignoreInternal(fsys, NodeDirname(absoluteFilePath))),
             absoluteFilePath, workingDir, << >>, NoReason)

\* the files of the tree, by absolute path
AllFiles(fsys) ==
  UNION { { d \o << "/" >> \o StaticEntries(d)[i].name :
                   i \in { k \in 1..Len(StaticEntries(d)) :
                             ~StaticEntries(d)[k].isDirectory } } : d \in Dirs }
  \cup { d \o << "/" >> \o GITIGNORE : d \in { g \in GitignoreDirs : fsys[g] # << >> } }

\* no second traversal
NoTraversal == [none |-> TRUE]

TypeOK ==
  /\ pc \in { "start", "walking", "done", "failed", "globbed", "explained", "listed",
             "found", "foundRecursive", "returned", "globbing" }
  /\ cwd \in Dirs
  /\ \A i \in 1..Len(additional) : additional[i] \in Lines \cup OptionLines
  /\ DOMAIN readdirError = Dirs
  /\ \A d \in Dirs : readdirError[d] \in { NONE } \cup ErrorCodes
  /\ readFileError \subseteq GitignoreDirs
  /\ error \in { NONE } \cup ErrorCodes
  /\ DOMAIN gitignore = GitignoreDirs
  /\ \A i \in 1..Len(fsCalls) : fsCalls[i].op \in { "readdir", "access", "readFile" }
  /\ other = NoTraversal \/ other.cwd \in Dirs

\* the .gitignore files of the tree: at most n lines in all, drawn from lines
GitignoreFilesOf(lines, n) ==
  UNION { UNION { { (R :> SubSeq(all, 1, i)) @@ (DirS :> SubSeq(all, i + 1, j))
                      @@ (DirD :> SubSeq(all, j + 1, Len(all))) :
                    j \in i..Len(all) } : i \in 0..Len(all) } :
          all \in BoundedSeq(lines, n) }

\* nothing has been called yet
NothingRun ==
  /\ pc = "start"
  /\ stack = << >>
  /\ yielded = << >>
  /\ globPattern = << >>
  /\ globResult = << >>
  /\ reasonFile = << >>
  /\ reason = NoReason
  /\ error = NONE
  /\ readdirOptions = << >>
  /\ readdirResult = << >>
  /\ foundFiles = << >>
  /\ fsCalls = << >>
  /\ other = NoTraversal

\* no additional file, and every call of the file system succeeds
NoFaults ==
  /\ additional = << >>
  /\ readdirError = [d \in Dirs |-> NONE]
  /\ readFileError = { }

Init ==
  /\ \E all \in BoundedSeq(Lines, MaxLines) :
       \E i \in 0..Len(all) : \E j \in i..Len(all) :
         gitignore = (R :> SubSeq(all, 1, i)) @@ (DirS :> SubSeq(all, i + 1, j))
                       @@ (DirD :> SubSeq(all, j + 1, Len(all)))
  /\ cwd \in { R, DirS }
  /\ NothingRun
  /\ NoFaults

Call(op, path) == [op |-> op, path |-> path]

\* the calls of walk on options.fs before walkDirectory(cwd): one readFile for
\* each additional file
AdditionalCalls ==
  [i \in 1..Len(AdditionalGitignoreFiles) |-> Call("readFile", AdditionalGitignoreFiles[i])]

\* the calls of walkDirectory(dir) on options.fs up to its loop: readdir, then
\* the access of findGitignoreInDir, then the readFile of
\* parseGitignorePatterns when the file exists
WalkDirectoryCalls(fsys, dir) ==
  << Call("readdir", dir) >>
    \o (IF readdirError[dir] # NONE THEN << >>
        ELSE << Call("access", Join(dir, GITIGNORE)) >>
               \o (IF FindGitignoreInDir(fsys, dir) = << >> THEN << >>
                   ELSE << Call("readFile", Join(dir, GITIGNORE)) >>))

\* walk(options): the initial patterns, then walkDirectory(cwd)
Walk ==
  /\ pc = "start"
  /\ IF readdirError[cwd] = NONE
     THEN /\ pc' = "walking"
          /\ stack' = << Frame(gitignore, cwd, InitialScopedPatterns(cwd)) >>
          /\ error' = error
     ELSE IF IsPermissionError(readdirError[cwd])
     THEN /\ pc' = "done"
          /\ stack' = << >>
          /\ error' = error
     ELSE /\ pc' = "failed"
          /\ stack' = << >>
          /\ error' = readdirError[cwd]
  /\ fsCalls' = fsCalls \o AdditionalCalls \o WalkDirectoryCalls(gitignore, cwd)
  /\ UNCHANGED << gitignore, cwd, yielded, globPattern, globResult, reasonFile, reason,
                  faults, other, results >>

Top == Head(stack)
NextEntry == Head(Top.entries)
FullPath == Join(Top.dir, NextEntry.name)
Advanced == [Top EXCEPT !.entries = Tail(Top.entries)]

HasEntry == pc = "walking" /\ stack # << >> /\ Top.entries # << >>

\* processEntry of an entry named .git: nothing
ProcessEntryGit ==
  /\ HasEntry
  /\ NextEntry.name = DOTGIT
  /\ stack' = << Advanced >> \o Tail(stack)
  /\ UNCHANGED << gitignore, cwd, pc, yielded, globPattern, globResult, reasonFile, reason,
                  faults, fsCalls, other, error, results >>

\* a processEntry that yields the directory before it walks it, as the
\* processEntry of readdir.ts does
ProcessEntryDirectoryYielded ==
  /\ HasEntry
  /\ NextEntry.name # DOTGIT
  /\ NextEntry.isDirectory
  /\ yielded' = yielded \o << [path |-> Relative(cwd, FullPath), name |-> NextEntry.name,
                                parentPath |-> Top.dir] >>
  /\ IF readdirError[FullPath] = NONE
     THEN /\ stack' = << Frame(gitignore, FullPath, Top.patterns), Advanced >> \o Tail(stack)
          /\ UNCHANGED << pc, error >>
     ELSE IF IsPermissionError(readdirError[FullPath])
     THEN /\ stack' = << Advanced >> \o Tail(stack)
          /\ UNCHANGED << pc, error >>
     ELSE /\ stack' = << >>
          /\ pc' = "failed"
          /\ error' = readdirError[FullPath]
  /\ fsCalls' = fsCalls \o WalkDirectoryCalls(gitignore, FullPath)
  /\ UNCHANGED << gitignore, cwd, globPattern, globResult, reasonFile, reason,
                  faults, other, results >>

\* a processEntry that treats .git as any other directory
ProcessEntryAnyDirectory ==
  /\ HasEntry
  /\ NextEntry.isDirectory
  /\ IF readdirError[FullPath] = NONE
     THEN /\ stack' = << Frame(gitignore, FullPath, Top.patterns), Advanced >> \o Tail(stack)
          /\ UNCHANGED << pc, error >>
     ELSE IF IsPermissionError(readdirError[FullPath])
     THEN /\ stack' = << Advanced >> \o Tail(stack)
          /\ UNCHANGED << pc, error >>
     ELSE /\ stack' = << >>
          /\ pc' = "failed"
          /\ error' = readdirError[FullPath]
  /\ fsCalls' = fsCalls \o WalkDirectoryCalls(gitignore, FullPath)
  /\ UNCHANGED << gitignore, cwd, yielded, globPattern, globResult, reasonFile, reason,
                  faults, other, results >>

\* processEntry of a directory: walkDirectory(fullPath) with the patterns of
\* the parent, whatever the patterns say about the directory
ProcessEntryDirectory ==
  /\ HasEntry
  /\ NextEntry.name # DOTGIT
  /\ NextEntry.isDirectory
  /\ IF readdirError[FullPath] = NONE
     THEN /\ stack' = << Frame(gitignore, FullPath, Top.patterns), Advanced >> \o Tail(stack)
          /\ UNCHANGED << pc, error >>
     ELSE IF IsPermissionError(readdirError[FullPath])
     THEN /\ stack' = << Advanced >> \o Tail(stack)
          /\ UNCHANGED << pc, error >>
     ELSE /\ stack' = << >>
          /\ pc' = "failed"
          /\ error' = readdirError[FullPath]
  /\ fsCalls' = fsCalls \o WalkDirectoryCalls(gitignore, FullPath)
  /\ UNCHANGED << gitignore, cwd, yielded, globPattern, globResult, reasonFile, reason,
                  faults, other, results >>

\* a processEntry that yields a file twice
ProcessEntryFileTwice ==
  /\ HasEntry
  /\ NextEntry.name # DOTGIT
  /\ ~NextEntry.isDirectory
  /\ stack' = << Advanced >> \o Tail(stack)
  /\ yielded' = yielded \o YieldOfFile(NextEntry.name, Top.dir, cwd, Top.patterns)
                        \o YieldOfFile(NextEntry.name, Top.dir, cwd, Top.patterns)
  /\ UNCHANGED << gitignore, cwd, pc, globPattern, globResult, reasonFile, reason,
                  faults, fsCalls, other, error, results >>

\* processEntry of a file: yielded unless shouldExclude
ProcessEntryFile ==
  /\ HasEntry
  /\ NextEntry.name # DOTGIT
  /\ ~NextEntry.isDirectory
  /\ stack' = << Advanced >> \o Tail(stack)
  /\ yielded' = yielded \o YieldOfFile(NextEntry.name, Top.dir, cwd, Top.patterns)
  /\ UNCHANGED << gitignore, cwd, pc, globPattern, globResult, reasonFile, reason,
                  faults, fsCalls, other, error, results >>

\* the loop of walkDirectory is over: back to the caller
WalkDirectoryReturn ==
  /\ pc = "walking"
  /\ stack # << >>
  /\ Top.entries = << >>
  /\ stack' = Tail(stack)
  /\ pc' = IF Tail(stack) = << >> THEN "done" ELSE "walking"
  /\ UNCHANGED << gitignore, cwd, yielded, globPattern, globResult, reasonFile, reason,
                  faults, fsCalls, other, error, results >>

\* glob(pattern, options): its walk has been consumed; filter and yield
Glob ==
  /\ pc = "done"
  /\ \E g \in GlobPatterns :
       /\ globPattern' = g
       /\ globResult' = GlobAll(gitignore, g, cwd, yielded)
  /\ pc' = "globbed"
  /\ UNCHANGED << gitignore, cwd, stack, yielded, reasonFile, reason,
                  faults, fsCalls, other, error, results >>

\* checkGitignoreReason(filePath, cwd) for a file of the tree
CheckGitignoreReason ==
  /\ pc = "done"
  /\ \E f \in AllFiles(gitignore) :
       /\ reasonFile' = f
       /\ reason' = CheckGitignoreReasonInternal(gitignore, f, cwd)
  /\ pc' = "explained"
  /\ UNCHANGED << gitignore, cwd, stack, yielded, globPattern, globResult,
                  faults, fsCalls, other, error, results >>

\* readdir(cwd, { fs, withFileTypes, recursive })
ReaddirCall ==
  /\ pc = "start"
  /\ \E withFileTypes \in BOOLEAN, recursive \in BOOLEAN :
       \E returned \in { ReaddirAll(gitignore, cwd, withFileTypes, recursive) } :
       /\ readdirOptions' = [withFileTypes |-> withFileTypes, recursive |-> recursive]
       /\ readdirResult' = returned.items
       /\ error' = returned.err
       /\ pc' = IF returned.err = NONE THEN "listed" ELSE "failed"
  /\ UNCHANGED << gitignore, cwd, stack, yielded, globPattern, globResult,
                  reasonFile, reason, faults, fsCalls, other, foundFiles >>

\* findGitignore(cwd, { fs })
FindGitignore ==
  /\ pc = "start"
  /\ foundFiles' = FindGitignoreInternal(gitignore, cwd)
  /\ pc' = "found"
  /\ UNCHANGED << gitignore, cwd, stack, yielded, globPattern, globResult,
                  reasonFile, reason, faults, fsCalls, other, error, readdirOptions, readdirResult >>

\* findGitignoreRecursive(cwd, { fs })
FindGitignoreRecursive ==
  /\ pc = "start"
  /\ foundFiles' = FindGitignoreRecursiveWalk(gitignore, cwd)
  /\ pc' = "foundRecursive"
  /\ UNCHANGED << gitignore, cwd, stack, yielded, globPattern, globResult,
                  reasonFile, reason, faults, fsCalls, other, error, readdirOptions, readdirResult >>

Next ==
  \/ Walk
  \/ Glob
  \/ CheckGitignoreReason
  \/ ProcessEntryGit
  \/ ProcessEntryDirectory
  \/ ProcessEntryFile
  \/ WalkDirectoryReturn

Spec == Init /\ [][Next]_vars

(***************************************************************************)
(* The traversals with options.additionalGitignoreFiles, on a tree whose    *)
(* .git directory may be unreadable.                                       *)
(***************************************************************************)
InitOptions ==
  /\ gitignore \in GitignoreFilesOf(OptionLines, MaxOptionLines)
  /\ cwd \in { R, DirS }
  /\ additional \in { << >> } \cup { << l >> : l \in OptionLines }
  /\ \E code \in { NONE, "EIO" } :
       readdirError = [d \in Dirs |-> IF d = DirGit THEN code ELSE NONE]
  /\ readFileError = { }
  /\ NothingRun

NextOptions ==
  \/ Walk
  \/ ProcessEntryGit
  \/ ProcessEntryDirectory
  \/ ProcessEntryFile
  \/ WalkDirectoryReturn
  \/ Glob
  \/ ReaddirCall

SpecOptions == InitOptions /\ [][NextOptions]_vars

(***************************************************************************)
(* The traversals and the find functions on a file system where one call   *)
(* fails.                                                                  *)
(***************************************************************************)
OneReaddirError ==
  { [d \in Dirs |-> IF d = bad THEN code ELSE NONE] : bad \in Dirs, code \in ErrorCodes }

InitFaults ==
  /\ gitignore \in GitignoreFilesOf(FaultLines, MaxFaultLines)
  /\ cwd \in { R, DirS }
  /\ additional = << >>
  /\ \/ /\ readdirError \in OneReaddirError \cup { [d \in Dirs |-> NONE] }
        /\ readFileError = { }
     \/ /\ readdirError = [d \in Dirs |-> NONE]
        /\ \E d \in GitignoreDirs : gitignore[d] # << >> /\ readFileError = { d }
  /\ NothingRun

NextFaults ==
  \/ Walk
  \/ ProcessEntryGit
  \/ ProcessEntryDirectory
  \/ ProcessEntryFile
  \/ WalkDirectoryReturn
  \/ Glob
  \/ ReaddirCall

SpecFaults == InitFaults /\ [][NextFaults]_vars

(***************************************************************************)
(* findGitignore and findGitignoreRecursive, on a tree where the readdir   *)
(* of at most one directory fails.                                         *)
(***************************************************************************)
InitFind ==
  /\ gitignore \in GitignoreFilesOf(FaultLines, MaxFindLines)
  /\ cwd \in { R, DirS, DirD }
  /\ additional = << >>
  /\ readdirError \in OneReaddirError \cup { [d \in Dirs |-> NONE] }
  /\ readFileError = { }
  /\ NothingRun

NextFind ==
  \/ FindGitignore
  \/ FindGitignoreRecursive

SpecFind == InitFind /\ [][NextFind]_vars

(***************************************************************************)
(* Two traversals of one tree. Each is a generator of its own; a generator  *)
(* runs until it awaits or yields, and then the other may be resumed.      *)
(***************************************************************************)
MaxTwoLines == 1
TwoLines == { << "f" >>, << "!", "f" >> }

\* the traversal that runs, as it is kept while it is suspended
Suspended ==
  [cwd |-> cwd, pc |-> pc, stack |-> stack, yielded |-> yielded,
   globPattern |-> globPattern, globResult |-> globResult,
   fsCalls |-> fsCalls, error |-> error]

\* a traversal that has not been started
NotStarted(dir) ==
  [cwd |-> dir, pc |-> "start", stack |-> << >>, yielded |-> << >>,
   globPattern |-> << >>, globResult |-> << >>, fsCalls |-> << >>, error |-> NONE]

\* a resumption that leaves what was yielded where it is, as if both
\* traversals pushed to one array
SwitchSharingYielded ==
  /\ other # NoTraversal
  /\ cwd' = other.cwd
  /\ pc' = other.pc
  /\ stack' = other.stack
  /\ yielded' = yielded
  /\ globPattern' = other.globPattern
  /\ globResult' = other.globResult
  /\ fsCalls' = other.fsCalls
  /\ error' = other.error
  /\ other' = Suspended
  /\ UNCHANGED << gitignore, reasonFile, reason, faults, results >>

\* the running traversal is suspended at an await or a yield and the other
\* one is resumed: each has its own cwd, patterns, position and results
Switch ==
  /\ other # NoTraversal
  /\ cwd' = other.cwd
  /\ pc' = other.pc
  /\ stack' = other.stack
  /\ yielded' = other.yielded
  /\ globPattern' = other.globPattern
  /\ globResult' = other.globResult
  /\ fsCalls' = other.fsCalls
  /\ error' = other.error
  /\ other' = Suspended
  /\ UNCHANGED << gitignore, reasonFile, reason, faults, results >>

InitTwo ==
  /\ gitignore \in GitignoreFilesOf(TwoLines, MaxTwoLines)
  /\ cwd \in { R, DirS }
  /\ pc = "start"
  /\ stack = << >>
  /\ yielded = << >>
  /\ globPattern = << >>
  /\ globResult = << >>
  /\ reasonFile = << >>
  /\ reason = NoReason
  /\ error = NONE
  /\ fsCalls = << >>
  /\ readdirOptions = << >>
  /\ readdirResult = << >>
  /\ foundFiles = << >>
  /\ \E dir \in { R, DirS } : other = NotStarted(dir)
  /\ NoFaults

NextTwo ==
  \/ Walk
  \/ ProcessEntryGit
  \/ ProcessEntryDirectory
  \/ ProcessEntryFile
  \/ WalkDirectoryReturn
  \/ Glob
  \/ Switch

SpecTwo == InitTwo /\ [][NextTwo]_vars

(***************************************************************************)
(* The traversals and readdir on trees whose rules name directories: by a  *)
(* literal name, by a wildcard, by a directory-only rule.                  *)
(***************************************************************************)
MaxDirLines == 1
PlainD == << "d" >>
WildS == << "s", "*" >>
DirLines == { PlainD, WildS, << "d", "/" >>, << "!", "f" >> }

InitDirs ==
  /\ gitignore \in GitignoreFilesOf(DirLines, MaxDirLines)
  /\ cwd \in { R, DirS }
  /\ NoFaults
  /\ NothingRun

NextDirs ==
  \/ Walk
  \/ ProcessEntryGit
  \/ ProcessEntryDirectory
  \/ ProcessEntryFile
  \/ WalkDirectoryReturn
  \/ Glob
  \/ ReaddirCall

SpecDirs == InitDirs /\ [][NextDirs]_vars

(***************************************************************************)
(* The consumer of the generators: it pulls one result at a time and may   *)
(* stop pulling (break, or return on the generator).                       *)
(***************************************************************************)
\* a return that first lets the directory at hand be read once more, as a
\* traversal that reads ahead of its consumer would
ConsumerReturnReadingAhead ==
  /\ pc = "walking"
  /\ yielded # << >>
  /\ pc' = "returned"
  /\ stack' = << >>
  /\ fsCalls' = fsCalls \o WalkDirectoryCalls(gitignore, Top.dir)
  /\ UNCHANGED << gitignore, cwd, yielded, globPattern, globResult, reasonFile, reason,
                  faults, other, error, results >>

\* the consumer of walk stops after a result: return() ends the generator
\* suspended at its yield, and with it every walkDirectory and processEntry
\* generator that delegates to it
ConsumerReturn ==
  /\ pc = "walking"
  /\ yielded # << >>
  /\ pc' = "returned"
  /\ stack' = << >>
  /\ UNCHANGED << gitignore, cwd, yielded, globPattern, globResult, reasonFile, reason,
                  faults, fsCalls, other, error, results >>

\* glob up to its first yield: collectGlobEntries has consumed the walk, the
\* paths are filtered, and the first of them is handed to the consumer
GlobYieldFirst ==
  /\ pc = "done"
  /\ \E g \in GlobPatterns :
       \E filteredPaths \in { GlobAll(gitignore, g, cwd, yielded) } :
         /\ globPattern' = g
         /\ globResult' = SubSeq(filteredPaths, 1, 1)
         /\ pc' = IF filteredPaths = << >> THEN "globbed" ELSE "globbing"
  /\ UNCHANGED << gitignore, cwd, stack, yielded, reasonFile, reason,
                  faults, fsCalls, other, error, results >>

\* the consumer pulls the remaining results of glob
GlobYieldRest ==
  /\ pc = "globbing"
  /\ globResult' = GlobAll(gitignore, globPattern, cwd, yielded)
  /\ pc' = "globbed"
  /\ UNCHANGED << gitignore, cwd, stack, yielded, globPattern, reasonFile, reason,
                  faults, fsCalls, other, error, results >>

NextPull ==
  \/ Walk
  \/ ProcessEntryGit
  \/ ProcessEntryDirectory
  \/ ProcessEntryFile
  \/ WalkDirectoryReturn
  \/ ConsumerReturn
  \/ GlobYieldFirst
  \/ GlobYieldRest

SpecPull == InitDirs /\ [][NextPull]_vars

(***************************************************************************)
(* A walk whose consumer pulls until the generator is done: every pull is  *)
(* answered, so a step that is possible is eventually taken.               *)
(***************************************************************************)
NextConsumed ==
  \/ Walk
  \/ ProcessEntryGit
  \/ ProcessEntryDirectory
  \/ ProcessEntryFile
  \/ WalkDirectoryReturn

\* a step of the walk is possible exactly in these states
Pulling == pc \in { "start", "walking" }

\* weak fairness of NextConsumed, with ENABLED << NextConsumed >>_vars written
\* as the state predicate Pulling: the walk does not stay forever in a state
\* where it can take a step without taking one
Consumed == []<>(~Pulling) \/ []<><< NextConsumed >>_vars

SpecConsumed == InitDirs /\ [][NextConsumed]_vars /\ Consumed

(***************************************************************************)
(* Properties.                                                             *)
(***************************************************************************)
Walked == Paths(yielded)
Globbed == { globResult[i] : i \in 1..Len(globResult) }
Beneath(path, dir) == StartsWith(path, dir \o << "/" >>)
AtOrBelow(dir, top) == dir = top \/ Beneath(dir, top)
NoNegation == \A s \in GitignoreDirs : \A i \in 1..Len(gitignore[s]) :
                ~IsNegation(gitignore[s][i])
HasLine(s, line) == \E i \in 1..Len(gitignore[s]) : gitignore[s][i] = line
OnlyFile(s) == \A t \in GitignoreDirs \ { s } : gitignore[t] = << >>
DirOnlyD == << "d", "/" >>
NegF == << "!", "f" >>
AnchoredF == << "/", "f" >>
Star == << "*" >>
PlainF == << "f" >>
\* directories called d
DirsNamedD == { DirD, DirSD }
GlobEverything == << "*", "*" >>

\* C1: a file inside a directory D matched by a directory-only rule `D/` of
\* the .gitignore of the traversal root is yielded neither by walk nor by
\* glob, whatever negations follow the rule or stand in a .gitignore inside D.
C1_DirectoryExclusionWins ==
  HasLine(cwd, DirOnlyD) =>
    \A f \in AllFiles(gitignore) :
      Beneath(f, Join(cwd, << "d" >>)) =>
        /\ pc = "done" => Relative(cwd, f) \notin Walked
        /\ pc = "globbed" => Relative(cwd, f) \notin Globbed

\* the decision the claim describes: some pattern matches and the last one
\* that matches is not a negation
LastMatchExcludes(path, patterns) ==
  LET clean(q) == IF IsNegation(q) THEN SliceFrom(q, 1) ELSE q
      matching == { i \in 1..Len(patterns) :
                      MatchesGitignorePattern(path, clean(patterns[i])) }
  IN /\ matching # { }
     /\ ~IsNegation(patterns[CHOOSE i \in matching : \A k \in matching : k <= i])

\* C2: shouldExclude(path, patterns) is a left-to-right fold: every file walk
\* decides on is left out exactly when some applicable pattern matches it and
\* the last applicable pattern that matches it is not a negation.
C2_LastMatchWins ==
  [][ProcessEntryFile =>
       LET path == Relative(cwd, FullPath)
           patterns == ApplicablePatterns(path, Top.patterns, cwd)
       IN (yielded' = yielded) <=> LastMatchExcludes(path, patterns)]_vars

\* `*` then `!f` in the root: f is kept and .gitignore is left out
C2_Witness ==
  /\ pc = "done"
  /\ cwd = R
  /\ gitignore[R] = << Star, NegF >>
  /\ << "f" >> \in Walked
  /\ GITIGNORE \notin Walked

\* `!f` then `*` in the root: f is left out as well
C2_WitnessReversed ==
  /\ pc = "done"
  /\ cwd = R
  /\ gitignore[R] = << NegF, Star >>
  /\ << "f" >> \notin Walked

\* C3: with no negation anywhere, a directory-only rule `d/` in the
\* .gitignore of S (S the traversal root or below it) keeps walk from
\* yielding any file beneath a directory called d at or below S.
C3_DirectoryOnlyAnyDepth ==
  (pc = "done" /\ NoNegation) =>
    \A s \in GitignoreDirs :
      (AtOrBelow(s, cwd) /\ HasLine(s, DirOnlyD)) =>
        \A dd \in DirsNamedD : \A f \in AllFiles(gitignore) :
          (Beneath(dd, s) /\ Beneath(f, dd)) => Relative(cwd, f) \notin Walked

\* C4: when the only rule of the tree is `/f` in the .gitignore of S (S the
\* traversal root or below it), walk and glob("**") leave out S/f and keep
\* every f deeper beneath S.
C4_RootAnchored ==
  \A s \in GitignoreDirs :
    (AtOrBelow(s, cwd) /\ gitignore[s] = << AnchoredF >> /\ OnlyFile(s)) =>
      \A f \in AllFiles(gitignore) :
        (Beneath(f, s) /\ Basename(f) = << "f" >> /\ ~Beneath(f, DirGit)) =>
          LET anchored == (f = Join(s, << "f" >>)) IN
          /\ pc = "done" => (Relative(cwd, f) \in Walked <=> ~anchored)
          /\ (pc = "globbed" /\ globPattern = GlobEverything) =>
               (Relative(cwd, f) \in Globbed <=> ~anchored)

\* the tree without the .gitignore of s
Without(s) == [gitignore EXCEPT ![s] = << >>]

RECURSIVE RemoveScope(_, _)
RemoveScope(scopedPatterns, s) ==
  IF scopedPatterns = << >> THEN << >>
  ELSE IF Head(scopedPatterns).scope = s THEN RemoveScope(Tail(scopedPatterns), s)
       ELSE << Head(scopedPatterns) >> \o RemoveScope(Tail(scopedPatterns), s)

\* C5: the rules of the .gitignore of S apply only to paths equal to or
\* beneath S. For every file outside S, walk's decision is the one it takes
\* on the tree without S/.gitignore, and shouldExclude on the scoped patterns
\* of a directory that has been walked decides as it does without the rules
\* of S.
C5_RulesStayInScope ==
  \A s \in GitignoreDirs \ { cwd } :
    LET outside == { Relative(cwd, f) :
                       f \in { g \in AllFiles(gitignore) :
                                 Beneath(g, cwd) /\ ~Beneath(g, s) /\ ~Beneath(g, DirGit) } }
    IN /\ pc = "done" =>
            LET without == Paths(WalkAll(Without(s), cwd))
            IN \A p \in outside : p \in Walked <=> p \in without
       /\ (stack # << >> /\ Top.entries = << >>) =>
            LET kept == RemoveScope(Top.patterns, s)
            IN \A p \in outside :
                 ShouldExclude(p, Top.patterns, cwd) = ShouldExclude(p, kept, cwd)

\* s/.gitignore holds `f`: s/f is left out, sd/f and d/f are kept
C5_Witness ==
  /\ pc = "done"
  /\ cwd = R
  /\ gitignore[DirS] = << PlainF >>
  /\ OnlyFile(DirS)
  /\ << "s", "/", "f" >> \notin Walked
  /\ << "s", "d", "/", "f" >> \in Walked
  /\ << "d", "/", "f" >> \in Walked

\* the walk is inside s/d, holding the rules of s, while sd is still to come
C5_WitnessWalking ==
  /\ pc = "walking"
  /\ cwd = R
  /\ gitignore[DirS] = << Star >>
  /\ stack # << >>
  /\ Top.dir = DirSD
  /\ \E i \in 1..Len(Top.patterns) : Top.patterns[i].scope = DirS

\* C6: matching is relative to the rule's scope directory: with no rule in
\* the root, the walk from R yields s/q exactly when the walk from R/s over
\* the same tree yields q.
C6_ScopeRelative ==
  (pc = "done" /\ cwd = R /\ gitignore[R] = << >>) =>
    \A f \in AllFiles(gitignore) :
      Beneath(f, DirS) =>
        (Relative(R, f) \in Walked
           <=> Relative(DirS, f) \in Paths(WalkAll(gitignore, DirS)))

\* C7: when S/.gitignore is the only .gitignore of the tree, walk from S or
\* from an ancestor yields S/.gitignore, whatever its lines are.
C7_GitignoreNeverSelfExcluded ==
  pc = "done" =>
    \A s \in GitignoreDirs :
      (AtOrBelow(s, cwd) /\ gitignore[s] # << >> /\ OnlyFile(s)) =>
        Relative(cwd, Join(s, GITIGNORE)) \in Walked

\* C8: glob(g) yields exactly the paths walk yields from the same root that
\* the matcher accepts against g.
C8_GlobFiltersWalk ==
  pc = "globbed" =>
    Globbed = { p \in Walked : Minimatch(p, globPattern, FALSE) }

\* C9: when no .gitignore above cwd holds a rule, for every file F beneath
\* cwd (outside .git), walk from cwd yields F if and only if
\* checkGitignoreReason(F, cwd) returns null or a reason with ignored = false.
C9_ReasonAgreesWithWalk ==
  (/\ pc = "explained"
   /\ cwd = R \/ gitignore[R] = << >>
   /\ Beneath(reasonFile, cwd)
   /\ ~Beneath(reasonFile, DirGit)) =>
    (Relative(cwd, reasonFile) \in Walked
       <=> (reason.none \/ ~reason.ignored))

\* C10: for a file beneath a directory called d at or below S, where the
\* .gitignore of S holds the directory-only rule `d/`, checkGitignoreReason
\* returns a directory-only rule `d/` with ignored = true.
C10_DirectoryRuleReported ==
  pc = "explained" =>
    \A s \in GitignoreDirs : \A dd \in DirsNamedD :
      (HasLine(s, DirOnlyD) /\ Beneath(dd, s) /\ Beneath(reasonFile, dd)) =>
        /\ ~reason.none
        /\ reason.ignored
        /\ reason.pattern = DirOnlyD

\* the reading in which the rule names a directory directly under S
C10_DirectlyUnderScope ==
  pc = "explained" =>
    \A s \in GitignoreDirs :
      (HasLine(s, DirOnlyD) /\ Beneath(reasonFile, Join(s, << "d" >>))) =>
        /\ ~reason.none
        /\ reason.ignored
        /\ reason.pattern = DirOnlyD

\* the rules a .gitignore line states, read as gitignore reads it: the rule
\* of the .gitignore of scope matches the entry at path (a directory or not)
RuleMatchesEntry(rule, scope, path, isDirectory) ==
  LET clean == IF IsNegation(rule) THEN SliceFrom(rule, 1) ELSE rule
      directoryOnly == EndsWith(clean, << "/" >>)
      body == IF directoryOnly THEN SliceEnd(clean, 1) ELSE clean
      anchored == StartsWith(body, << "/" >>)
      name == IF anchored THEN SliceFrom(body, 1) ELSE body
  IN /\ Beneath(path, scope)
     /\ directoryOnly => isDirectory
     /\ IF anchored THEN path = scope \o << "/" >> \o name
        ELSE name = Star \/ Basename(path) = name

\* the rule matches the file, or a directory the file lies in
RuleMatchesPath(rule, scope, file) ==
  \/ RuleMatchesEntry(rule, scope, file, FALSE)
  \/ \E a \in Dirs : Beneath(file, a) /\ RuleMatchesEntry(rule, scope, a, TRUE)

\* the rules of the .gitignore files of the directories above the file, root
\* first, each with the directory of its file
RulesAbove(file) ==
  LET Of(s) == IF Beneath(file, s)
               THEN [i \in 1..Len(gitignore[s]) |-> [rule |-> gitignore[s][i], scope |-> s]]
               ELSE << >>
  IN Of(R) \o Of(DirS) \o Of(DirD)

\* some directory the file lies in is matched by a rule
AncestorMatched(file) ==
  \E a \in Dirs : \E i \in 1..Len(RulesAbove(file)) :
    /\ Beneath(file, a)
    /\ RuleMatchesEntry(RulesAbove(file)[i].rule, RulesAbove(file)[i].scope, a, TRUE)

\* C11: checkGitignoreReason returns null exactly when no rule of a
\* .gitignore above the file matches it; and when the last rule matching the
\* file is a negation and no directory above the file is matched, the reason
\* carries that negation (with its `!`) and ignored = false.
C11_NullIffUnmatched ==
  pc = "explained" =>
    LET rules == RulesAbove(reasonFile)
        matching == { i \in 1..Len(rules) :
                        RuleMatchesPath(rules[i].rule, rules[i].scope, reasonFile) }
        last == CHOOSE i \in matching : \A k \in matching : k <= i
    IN /\ reason.none <=> matching = { }
       /\ (matching # { } /\ IsNegation(rules[last].rule) /\ ~AncestorMatched(reasonFile))
            => /\ ~reason.none
               /\ reason.pattern = rules[last].rule
               /\ ~reason.ignored

\* the paths readdir returned
Listed == { readdirResult[i].path : i \in 1..Len(readdirResult) }

\* C12: started in the directory s, walk, glob and readdir apply the rules of
\* the .gitignore of its parent r: when that file holds `f` or `*` and no
\* .gitignore holds a negation, the file s/f is not returned.
C12_AncestorRulesApply ==
  (/\ cwd = DirS
   /\ additional = << >>
   /\ NoNegation
   /\ HasLine(R, PlainF) \/ HasLine(R, Star))
    => /\ pc = "done" => << "f" >> \notin Walked
       /\ pc = "globbed" => << "f" >> \notin Globbed
       /\ pc = "listed" => << "f" >> \notin Listed

\* the file f of the directory the traversal starts in
FileInCwd == cwd \o << "/", "f" >>

\* a rule of the additional file matches the file (its rules count from cwd)
AdditionalMatches(file) ==
  \E i \in 1..Len(additional) : RuleMatchesEntry(additional[i], cwd, file, FALSE)

\* the last of the given project rules that matches the file decides whether
\* walk yields it, whatever the additional file says of it
ProjectRulesDecide(rules, file) ==
  LET matching == { i \in 1..Len(rules) :
                      RuleMatchesEntry(rules[i].rule, rules[i].scope, file, FALSE) }
      last == CHOOSE i \in matching : \A k \in matching : k <= i
  IN (AdditionalMatches(file) /\ matching # { } /\ ~AncestorMatched(file))
       => (Relative(cwd, file) \in Walked <=> IsNegation(rules[last].rule))

\* C13: the rules of the additional file come before all project rules: when
\* a rule of the additional file matches a file and project rules match it
\* too, the last matching project rule decides: a project negation makes walk
\* yield the file, a project exclusion makes walk leave it out.
C13_ProjectRulesOverrideAdditional ==
  pc = "done" => ProjectRulesDecide(RulesAbove(FileInCwd), FileInCwd)

\* the same for the project rules of the traversed tree: those of the
\* .gitignore of cwd
C13_TraversedRulesOverrideAdditional ==
  pc = "done" =>
    ProjectRulesDecide([i \in 1..Len(gitignore[cwd]) |->
                          [rule |-> gitignore[cwd][i], scope |-> cwd]], FileInCwd)

\* inside the .git directory of the tree
InsideGit(path) == path = DirGit \/ Beneath(path, DirGit)

PermissionCodes == { "EACCES", "EPERM" }

\* the directories of the traversal whose readdir fails: with a permission
\* error, with another error
DeniedDirs ==
  { d \in Dirs : AtOrBelow(d, cwd) /\ readdirError[d] \in PermissionCodes }
BrokenDirs ==
  { d \in Dirs : AtOrBelow(d, cwd) /\ readdirError[d] \notin PermissionCodes \cup { NONE } }

\* a rule of a .gitignore of the traversal matches the entry, or a directory
\* it lies in
IgnoredEntry(path, isDirectory) ==
  \E s \in GitignoreDirs : \E i \in 1..Len(gitignore[s]) :
    /\ AtOrBelow(s, cwd)
    /\ \/ RuleMatchesEntry(gitignore[s][i], s, path, isDirectory)
       \/ \E a \in Dirs : Beneath(path, a) /\ RuleMatchesEntry(gitignore[s][i], s, a, TRUE)

\* what readdir lists when only directories of DeniedDirs fail: the entries
\* no rule ignores, outside .git and outside the directories that fail
ExpectedListed(recursive) ==
  { Relative(cwd, e) : e \in { x \in AllFiles(gitignore) \cup Dirs :
       /\ Beneath(x, cwd)
       /\ ~InsideGit(x)
       /\ ~IgnoredEntry(x, x \in Dirs)
       /\ \A d \in DeniedDirs : ~Beneath(x, d)
       /\ recursive \/ NodeDirname(x) = cwd } }

\* C14: a directory whose readdir fails with EACCES or EPERM contributes
\* nothing and the rest of the traversal is unchanged: walk yields what it
\* yields of the readable tree outside that directory, readdir lists the
\* entries outside it. With any other error on a directory it reads, walk and
\* readdir end with that error: walk has yielded a prefix of what it yields of
\* the readable tree, readdir returns nothing, and neither completes.
C14_ReaddirFailure ==
  readFileError = { } =>
    /\ pc = "done" =>
         /\ Walked = { p \in Paths(WalkAll(gitignore, cwd)) :
                         \A d \in DeniedDirs : ~Beneath(Join(cwd, p), d) }
         /\ \A d \in BrokenDirs : InsideGit(d)
    /\ pc = "listed" =>
         /\ Listed = ExpectedListed(readdirOptions.recursive)
         /\ \A d \in BrokenDirs : InsideGit(d) \/ IgnoredEntry(d, TRUE)
    /\ pc = "failed" =>
         /\ \E d \in BrokenDirs : readdirError[d] = error
         /\ stack = << >>
         /\ readdirResult = << >>
         /\ \E n \in 0..Len(WalkAll(gitignore, cwd)) :
              yielded = SubSeq(WalkAll(gitignore, cwd), 1, n)

\* walk meets a directory it may not read and goes on to the entries behind it
C14_Witness ==
  /\ pc = "done"
  /\ cwd = R
  /\ readdirError[DirD] \in PermissionCodes
  /\ << "f" >> \in Walked
  /\ << "s", "/", "f" >> \in Walked

\* C15: when reading the .gitignore of a directory of the traversal fails
\* (with an error other than absence or permission), walk and glob end with
\* that error: neither completes.
C15_ReadFailureEnds ==
  (\E d \in readFileError : AtOrBelow(d, cwd)) => pc \notin { "done", "globbed" }

\* the .gitignore files that exist in startDir and in the directories above it
GitignoreFilesAbove(startDir) ==
  { d \o << "/" >> \o GITIGNORE :
      d \in { x \in GitignoreDirs : AtOrBelow(startDir, x) /\ gitignore[x] # << >> } }

FoundSet == { foundFiles[i] : i \in 1..Len(foundFiles) }

\* C16 as stated: findGitignore(startDir) returns the existing .gitignore
\* files of startDir and of its ancestors, root first: the file of an
\* ancestor directory precedes the file of a descendant directory.
C16_RootFirst ==
  pc = "found" =>
    /\ FoundSet = GitignoreFilesAbove(cwd)
    /\ \A i \in 1..Len(foundFiles) : \A j \in 1..Len(foundFiles) :
         i < j => Beneath(NodeDirname(foundFiles[j]), NodeDirname(foundFiles[i]))

\* C16 amended: findGitignore(startDir) returns the existing .gitignore files
\* of startDir and of its ancestors, nearest first: the file of a descendant
\* directory precedes the file of an ancestor directory.
C16_NearestFirst ==
  pc = "found" =>
    /\ FoundSet = GitignoreFilesAbove(cwd)
    /\ \A i \in 1..Len(foundFiles) : \A j \in 1..Len(foundFiles) :
         i < j => Beneath(NodeDirname(foundFiles[i]), NodeDirname(foundFiles[j]))

\* startDir and its parent both hold a .gitignore
C16_Witness ==
  /\ pc = "found"
  /\ cwd = DirS
  /\ Len(foundFiles) = 2

\* the files named .gitignore beneath rootDir
GitignoreFilesBeneath(rootDir) ==
  { f \in AllFiles(gitignore) : Basename(f) = GITIGNORE /\ Beneath(f, rootDir) }

\* no path is returned twice
EachOnce == \A i \in 1..Len(foundFiles) : \A j \in 1..Len(foundFiles) :
              foundFiles[i] = foundFiles[j] => i = j

HasGitSegment(path) ==
  \E i \in 1..Len(Split(path, "/")) : Split(path, "/")[i] = DOTGIT

\* C18: whatever the .gitignore files and the additional file hold (`!.git`
\* included), nothing walk yields, glob returns or readdir lists is named
\* .git or has a segment .git, walk never reads a directory .git, and no
\* traversal ends with the error an unreadable .git directory would give.
C18_GitNeverVisited ==
  /\ \A i \in 1..Len(yielded) :
       ~HasGitSegment(yielded[i].path) /\ yielded[i].name # DOTGIT
  /\ \A i \in 1..Len(globResult) : ~HasGitSegment(globResult[i])
  /\ \A i \in 1..Len(readdirResult) :
       ~HasGitSegment(readdirResult[i].path) /\ readdirResult[i].name # DOTGIT
  /\ \A i \in 1..Len(stack) : ~InsideGit(stack[i].dir)
  /\ pc # "failed"

\* a traversal of r completes although `!.git` re-includes .git and the
\* readdir of .git would fail
C18_Witness ==
  /\ pc \in { "done", "listed" }
  /\ cwd = R
  /\ readdirError[DirGit] = "EIO"
  /\ \/ HasLine(R, NegDotGit)
     \/ additional = << NegDotGit >>

\* C19: whatever walk yields is a file of the tree, never a directory: its
\* path (string mode) and its parentPath and name (withFileTypes mode) name
\* the same non-directory entry. So a directory whose files are all ignored
\* leaves nothing in the sequence.
C19_OnlyFilesYielded ==
  \A i \in 1..Len(yielded) :
    /\ Join(cwd, yielded[i].path) \in AllFiles(gitignore)
    /\ Join(cwd, yielded[i].path) \notin Dirs
    /\ Join(yielded[i].parentPath, yielded[i].name) = Join(cwd, yielded[i].path)

\* walk has gone through r and yielded files, none of them from the
\* directories d and s/d, whose files are all ignored
C19_Witness ==
  /\ pc = "done"
  /\ cwd = R
  /\ << "f" >> \in Walked
  /\ \A p \in Walked : \A dd \in DirsNamedD : ~AtOrBelow(Join(R, p), dd)

\* C20: the array readdir returns is in ascending order of name (the string
\* itself, or the name of the Dirent), in every mode: no element orders
\* before an element that precedes it.
C20_ReaddirSorted ==
  pc = "listed" =>
    \A i \in 1..Len(readdirResult) : \A j \in 1..Len(readdirResult) :
      i < j => LocaleCompare(SortName(readdirResult[i], readdirOptions.withFileTypes),
                             SortName(readdirResult[j], readdirOptions.withFileTypes)) <= 0

\* a recursive listing of Dirents: the f of s/d stands before the sd of r
C20_Witness ==
  /\ pc = "listed"
  /\ readdirOptions = [withFileTypes |-> TRUE, recursive |-> TRUE]
  /\ cwd = R
  /\ \E i \in 1..Len(readdirResult) : \E j \in 1..Len(readdirResult) :
       /\ i < j
       /\ readdirResult[i].parentPath = DirSD
       /\ readdirResult[j].parentPath = R
       /\ readdirResult[j].name = << "s", "d" >>

(***************************************************************************)
(* Claims C21..C30                                                         *)
(***************************************************************************)
FStarStar == << "f", "/", "*", "*" >>
PatternsOf(s) ==
  LET all == ParseGitignoreToExclude(gitignore, s \o << "/" >> \o GITIGNORE, << >>)
  IN { all[i] : i \in 1..Len(all) }

\* C21: parseGitignoreToExclude translates the root-anchored line `/f` of a
\* .gitignore into both `f` and `f/**`, relative to the directory of the
\* file, so that the entry and everything beneath it are covered.
C21_RootAnchoredBoth ==
  pc = "globbed" =>
    \A s \in GitignoreDirs :
      HasLine(s, AnchoredF) => PlainF \in PatternsOf(s) /\ FStarStar \in PatternsOf(s)

Finished(state) == state \in { "done", "globbed" }
SetOf(seq) == { seq[i] : i \in 1..Len(seq) }

\* C22: two traversals whose steps interleave share nothing: when a walk or a
\* glob is over, it has yielded the set of paths that the same traversal
\* yields when it runs alone on the tree, and two traversals of one directory
\* (with one pattern) have yielded the same set.
C22_TraversalsIndependent ==
  /\ Finished(pc) => Walked = Paths(WalkAll(gitignore, cwd))
  /\ pc = "globbed" =>
       Globbed = SetOf(GlobAll(gitignore, globPattern, cwd, WalkAll(gitignore, cwd)))
  /\ (other # NoTraversal /\ Finished(pc) /\ Finished(other.pc) /\ cwd = other.cwd) =>
       /\ Walked = Paths(other.yielded)
       /\ (pc = "globbed" /\ other.pc = "globbed" /\ globPattern = other.globPattern) =>
            Globbed = SetOf(other.globResult)

\* the walk of r is over while a walk of s, which has yielded s/f already,
\* is suspended inside s; the .gitignore of r ignores f
C22_Witness ==
  /\ other # NoTraversal
  /\ pc = "done"
  /\ cwd = R
  /\ HasLine(R, PlainF)
  /\ other.pc = "walking"
  /\ other.cwd = DirS
  /\ PlainF \in Paths(other.yielded)
  /\ yielded # << >>

\* C23: walk makes no call on the file system inside a directory D that the
\* rules active at the parent of D exclude: no walkDirectory call, whose
\* readdir, access and readFile the log holds, is running for a directory
\* whose path with trailing slash the patterns of the calling walkDirectory
\* exclude.
C23_ExcludedDirectoryUntouched ==
  \A i \in 1..(Len(stack) - 1) :
    (/\ Call("readdir", stack[i].dir) \in SetOf(fsCalls)
     /\ Call("access", Join(stack[i].dir, GITIGNORE)) \in SetOf(fsCalls)) =>
      ~ShouldExclude(Relative(cwd, stack[i].dir) \o << "/" >>, stack[i + 1].patterns, cwd)

\* the last segment of a path
NameOf(path) == Basename(path)
\* a rule without "/" and without "!"
IsPlainRule(rule) == ~IsNegation(rule) /\ ~Includes(rule, << "/" >>)
\* the directories of the traversal that a plain rule of a .gitignore at or
\* above them names
PlainlyExcludedDirs ==
  { dir \in Dirs \ { DirGit } :
      \E s \in GitignoreDirs : \E i \in 1..Len(gitignore[s]) :
        /\ AtOrBelow(s, cwd)
        /\ Beneath(dir, s)
        /\ IsPlainRule(gitignore[s][i])
        /\ Minimatch(NameOf(dir), gitignore[s][i], TRUE) }

\* C24: a plain rule without a slash whose pattern matches the name of a
\* directory, literal (`d`) or wildcard (`s*`), excludes the whole subtree:
\* neither walk nor glob yields a file beneath such a directory.
C24_PlainRuleExcludesSubtree ==
  \A dir \in PlainlyExcludedDirs :
    /\ pc = "done" => \A p \in Walked : ~Beneath(Join(cwd, p), dir)
    /\ pc = "globbed" => \A p \in Globbed : ~Beneath(Join(cwd, p), dir)

\* the patterns readdir holds while it processes the entries of dir
RECURSIVE ReaddirPatternsAt(_)
ReaddirPatternsAt(dir) ==
  ReaddirLoadLocalGitignorePatterns(gitignore, dir, cwd,
    IF dir = cwd
    THEN CollectAllGitignorePatterns(gitignore, FindRelevantGitignoreFiles(gitignore, cwd),
                                     cwd, AdditionalGitignoreFiles)
    ELSE ReaddirPatternsAt(NodeDirname(dir)))

NotExcluded(path, patterns) == FilterByGitignore(<< path >>, patterns) # << >>

\* C25: readdir returns an entry only if its path is not excluded and, when
\* it is a directory, its path with trailing slash is not excluded either.
C25_ReaddirOmitsExcluded ==
  pc = "listed" =>
    \A i \in 1..Len(readdirResult) :
      LET item == readdirResult[i]
          patterns == ReaddirPatternsAt(item.parentPath)
      IN /\ NotExcluded(item.path, patterns)
         /\ item.isDirectory => NotExcluded(item.path \o << "/" >>, patterns)

\* the directory a .gitignore path lies in
DirOfFile(file) == SubSeq(file, 1, LastIndexOfSlash(file) - 1)

\* the .gitignore files whose patterns glob and readdir start with, in the
\* order in which collectAllGitignorePatterns appends their patterns
RelevantOrder == FindRelevantGitignoreFiles(gitignore, cwd)

\* C26: the active rule list is ordered outermost scope first. In every
\* running walkDirectory call a pattern never stands before a pattern of a
\* directory above its own, and the patterns of one file keep their line
\* order; in the list glob and readdir collect, the file of an ancestor
\* directory stands before the file of a directory below it.
C26_OutermostFirst ==
  /\ \A k \in 1..Len(stack) :
       LET ps == stack[k].patterns IN
       /\ \A i \in 1..Len(ps) : \A j \in 1..Len(ps) :
            i < j => AtOrBelow(ps[j].scope, ps[i].scope)
       /\ \A s \in GitignoreDirs :
            AtOrBelow(stack[k].dir, s) /\ AtOrBelow(s, cwd) =>
              SelectSeq(ps, LAMBDA sp : sp.scope = s /\ sp.pattern # DOTGIT)
                = Scoped(KeepRawPatterns(gitignore[s]), s)
  /\ pc \in { "globbed", "listed" } =>
       \A i \in 1..Len(RelevantOrder) : \A j \in 1..Len(RelevantOrder) :
         i < j => Beneath(DirOfFile(RelevantOrder[j]), DirOfFile(RelevantOrder[i]))

\* the entry of the directory above through which a path below is reached
EntryToward(above, path) == Head(Split(Relative(above, path), "/"))
IndexIn(dir, name) ==
  CHOOSE i \in 1..Len(Readdir(gitignore, dir)) : Readdir(gitignore, dir)[i].name = name
\* the deepest directory that holds both
CommonDir(dir, path) ==
  CHOOSE a \in Dirs :
    /\ AtOrBelow(dir, a) /\ Beneath(path, a)
    /\ \A b \in Dirs : AtOrBelow(dir, b) /\ Beneath(path, b) => Len(b) <= Len(a)
\* the traversal reaches the directory only after it has passed the path
ComesAfter(dir, path) ==
  /\ ~Beneath(path, dir)
  /\ LET a == CommonDir(dir, path)
     IN IndexIn(a, EntryToward(a, dir)) > IndexIn(a, EntryToward(a, path))

\* C27: glob produces its results on demand: when it has yielded its first
\* path and the consumer has not pulled again, no directory that comes after
\* that path in traversal order has been read.
C27_OnDemand ==
  pc = "globbing" =>
    \A dir \in Dirs :
      Beneath(dir, cwd) /\ ComesAfter(dir, Join(cwd, globResult[1])) =>
        Call("readdir", dir) \notin SetOf(fsCalls)

\* C28: once the consumer of walk has stopped pulling, the traversal makes no
\* further call on the file system: the step that stops it and every step
\* after it leave the log of calls as it is.
C28_NoCallAfterReturn ==
  [][(pc = "returned" \/ pc' = "returned") => fsCalls' = fsCalls]_vars

\* the consumer has stopped a walk of r after some results, before the
\* directory sd was read
C28_Witness ==
  /\ pc = "returned"
  /\ cwd = R
  /\ yielded # << >>
  /\ Call("readdir", R) \in SetOf(fsCalls)
  /\ Call("readdir", DirSd) \notin SetOf(fsCalls)

\* how often the sequence holds the element
Occurrences(seq, x) == Cardinality({ i \in 1..Len(seq) : seq[i] = x })

\* C29: on a finite tree whose reads succeed, a walk that is consumed to the
\* end eventually completes, having listed each directory at most once and
\* yielded each file at most once; until then it is never left without a
\* step to take.
C29_WalkCompletes ==
  /\ [](pc = "walking" => stack # << >>)
  /\ <>(/\ pc = "done"
        /\ \A dir \in Dirs : Occurrences(fsCalls, Call("readdir", dir)) <= 1
        /\ \A i \in 1..Len(yielded) : Occurrences(yielded, yielded[i]) = 1)

\* the walk of r is done: it has listed r, s and s/d and yielded s/d/f
C29_Witness ==
  /\ pc = "done"
  /\ cwd = R
  /\ { Call("readdir", R), Call("readdir", DirS), Call("readdir", DirSD) }
       \subseteq SetOf(fsCalls)
  /\ << "s", "/", "d", "/", "f" >> \in Walked

\* readdir has been called: it has returned or failed, and no walk has run
ReaddirCalled == pc \in { "listed", "failed" } /\ fsCalls = << >>

\* the entries of cwd itself that the patterns active there let through
OwnEntries ==
  { Readdir(gitignore, cwd)[i].name :
      i \in { k \in 1..Len(Readdir(gitignore, cwd)) :
                /\ Readdir(gitignore, cwd)[k].name # DOTGIT
                /\ NotExcluded(Readdir(gitignore, cwd)[k].name, ReaddirPatternsAt(cwd)) } }

====
